---- MODULE Spec2Model ----
(***************************************************************************)
(* A model of saba's document-construction pipeline and of its Url:        *)
(*   - HtmlTokenizer   (saba_core/src/renderer/html/token.rs)              *)
(*   - HtmlParser      (saba_core/src/renderer/html/parser.rs)             *)
(*   - CssTokenizer    (saba_core/src/renderer/css/token.rs)               *)
(*   - CssParser       (saba_core/src/renderer/css/cssom.rs)               *)
(*   - get_target_element_node (saba_core/src/renderer/dom/api.rs)         *)
(*   - Url             (saba_core/src/url.rs)                              *)
(* Characters are one-character strings, Rust Strings and Vec<char> are    *)
(* sequences of characters, a panic is an explicit outcome.                *)
(***************************************************************************)
EXTENDS Integers, Sequences, FiniteSets, TLC

VARIABLES
    given,    \* the input as the caller wrote it, before it is rendered to text
    t,        \* the HtmlTokenizer object (state, pos, reconsume, latest_token, input, buf)
    tpc,      \* where the caller of HtmlTokenizer::next stands: "idle", "loop", "panic"
    emitted,  \* the values returned by the successive calls of HtmlTokenizer::next
    parser,   \* the HtmlParser object (window, mode, original_insertion_mode, stack)
    token,    \* construct_tree's local `token`
    pc,       \* construct_tree's position: "start", "while", "match", "done", "panic", "off"
    css,      \* the CssParser object: its Peekable<CssTokenizer>
    cpc,      \* the position inside CssParser::parse_stylesheet
    cframe,   \* the locals of the active CssParser calls (rules, rule, declarations)
    url,      \* the Url object (url, host, port, path, searchpart)
    upc,      \* where the caller of Url::parse stands: "new", "parse", "returned", "off"
    returned  \* the values returned by the successive calls of Url::parse

vars == <<given, t, tpc, emitted, parser, token, pc, css, cpc, cframe, url, upc, returned>>

(***************************************************************************)
(* Bounds of the model.                                                    *)
(***************************************************************************)
MaxInputLen == 4
MaxNoneCalls == 2
MaxAttrs == 2
MaxItems == 3
MaxCssLen == 3
MaxDecls == 2
MaxRules == 2
MaxUrlLen == 3
MaxParses == 2
MaxNodes == 5

\* the sequences over S of length at most n
SeqsUpTo(S, n) == UNION {[1..k -> S] : k \in 0..n}

RECURSIVE Flatten(_)
Flatten(ss) == IF ss = <<>> THEN <<>> ELSE Head(ss) \o Flatten(Tail(ss))

RangeOf(s) == {s[i] : i \in 1..Len(s)}

\* the one element of a singleton: The({e : v \in {x}}) is e after `let v = x;`
The(S) == CHOOSE v \in S : TRUE

(***************************************************************************)
(* char helpers of core::char used by the tokenizers                       *)
(***************************************************************************)
LowerSeq == <<"a","b","c","d","e","f","g","h","i","j","k","l","m",
              "n","o","p","q","r","s","t","u","v","w","x","y","z">>
UpperSeq == <<"A","B","C","D","E","F","G","H","I","J","K","L","M",
              "N","O","P","Q","R","S","T","U","V","W","X","Y","Z">>

IsAsciiUppercase(c) == c \in RangeOf(UpperSeq)

IsAsciiAlphabetic(c) == c \in RangeOf(LowerSeq) \cup RangeOf(UpperSeq)

ToAsciiLowercase(c) ==
    IF IsAsciiUppercase(c)
    THEN LowerSeq[CHOOSE i \in 1..Len(UpperSeq) : UpperSeq[i] = c]
    ELSE c

(***************************************************************************)
(* HtmlToken (token.rs:142-161) and Attribute.  One record shape is used   *)
(* for every variant; NoneTok is Option::None; ContinueTok and PanicTok    *)
(* are the two ways an iteration of next's loop ends without returning.    *)
(***************************************************************************)
Tok(kind, tag, sc, attrs, c) ==
    [kind |-> kind, tag |-> tag, self_closing |-> sc, attributes |-> attrs, c |-> c]

StartTagTok(tag, sc, attrs) == Tok("StartTag", tag, sc, attrs, "")
EndTagTok(tag) == Tok("EndTag", tag, FALSE, <<>>, "")
CharTok(c) == Tok("Char", <<>>, FALSE, <<>>, c)
EofTok == Tok("Eof", <<>>, FALSE, <<>>, "")
NoneTok == Tok("None", <<>>, FALSE, <<>>, "")
ContinueTok == Tok("Continue", <<>>, FALSE, <<>>, "")
PanicTok == Tok("Panic", <<>>, FALSE, <<>>, "")

\* Attribute::new and Attribute::add_char (attribute.rs is not part of the sources)
NewAttribute == [name |-> <<>>, value |-> <<>>]

AddChar(attr, c, is_name) ==
    IF is_name THEN [attr EXCEPT !.name = Append(@, c)]
    ELSE [attr EXCEPT !.value = Append(@, c)]

(***************************************************************************)
(* HtmlTokenizer                                                           *)
(***************************************************************************)
\* HtmlTokenizer::new
NewHtmlTokenizer(html) ==
    [state |-> "Data", pos |-> 0, reconsume |-> FALSE, latest_token |-> NoneTok,
     input |-> html, buf |-> <<>>, panicked |-> FALSE]

\* a variant: the end test shifted to `pos >= len`
is_eof_at_len(tk) == tk.pos >= Len(tk.input)

is_eof(tk) == tk.pos > Len(tk.input)

Abort(tk) == [tk EXCEPT !.panicked = TRUE]

\* a variant: only a start tag is put under construction
create_tag_start_only(tk, start_tag_token) ==
    IF start_tag_token
    THEN [tk EXCEPT !.latest_token = StartTagTok(<<>>, FALSE, <<>>)]
    ELSE tk

create_tag(tk, start_tag_token) ==
    IF start_tag_token
    THEN [tk EXCEPT !.latest_token = StartTagTok(<<>>, FALSE, <<>>)]
    ELSE [tk EXCEPT !.latest_token = EndTagTok(<<>>)]

append_tag_name(tk, c) ==
    IF tk.latest_token.kind \notin {"StartTag", "EndTag"} THEN Abort(tk)
    ELSE [tk EXCEPT !.latest_token.tag = Append(@, c)]

\* returns the token and clears latest_token; the assertion fails on None
take_latest_token(tk) ==
    IF tk.latest_token.kind = "None"
    THEN [t |-> Abort(tk), ret |-> PanicTok]
    ELSE [t |-> [tk EXCEPT !.latest_token = NoneTok], ret |-> tk.latest_token]

start_new_attribute(tk) ==
    IF tk.latest_token.kind # "StartTag" THEN Abort(tk)
    ELSE [tk EXCEPT !.latest_token.attributes = Append(@, NewAttribute)]

append_attribute(tk, c, is_name) ==
    IF tk.latest_token.kind # "StartTag" THEN Abort(tk)
    ELSE IF Len(tk.latest_token.attributes) = 0 THEN Abort(tk)
    ELSE [tk EXCEPT !.latest_token.attributes[Len(tk.latest_token.attributes)] =
                        AddChar(@, c, is_name)]

\* a variant: the flag is left as create_tag set it
set_self_closing_flag_unset(tk) ==
    IF tk.latest_token.kind # "StartTag" THEN Abort(tk) ELSE tk

set_self_closing_flag(tk) ==
    IF tk.latest_token.kind # "StartTag" THEN Abort(tk)
    ELSE [tk EXCEPT !.latest_token.self_closing = TRUE]

\* the outcome of one iteration of next's loop: the tokenizer and what is returned
Ret(tk, tok) == [t |-> tk, ret |-> IF tk.panicked THEN PanicTok ELSE tok]
Cont(tk) == Ret(tk, ContinueTok)

\* `let c = match self.reconsume {..}`: reconsume_input reads input[pos - 1],
\* consume_next_input reads input[pos] and advances; an index past the end panics
ReadInput(tk) ==
    IF tk.reconsume
    THEN IF tk.pos < 1 \/ tk.pos > Len(tk.input)
         THEN [t |-> Abort(tk), c |-> ""]
         ELSE [t |-> [tk EXCEPT !.reconsume = FALSE], c |-> tk.input[tk.pos]]
    ELSE IF tk.pos >= Len(tk.input)
         THEN [t |-> Abort(tk), c |-> ""]
         ELSE [t |-> [tk EXCEPT !.pos = @ + 1], c |-> tk.input[tk.pos + 1]]

StateData(tk, c) ==
    IF c = "<" THEN Cont([tk EXCEPT !.state = "TagOpen"])
    ELSE IF is_eof(tk) THEN Ret(tk, EofTok)
    ELSE Ret(tk, CharTok(c))

StateTagOpen(tk, c) ==
    IF c = "/" THEN Cont([tk EXCEPT !.state = "EndTagOpen"])
    ELSE IF IsAsciiAlphabetic(c)
    THEN Cont(create_tag([tk EXCEPT !.reconsume = TRUE, !.state = "TagName"], TRUE))
    ELSE IF is_eof(tk) THEN Ret(tk, EofTok)
    ELSE Cont([tk EXCEPT !.reconsume = TRUE, !.state = "Data"])

StateEndTagOpen(tk, c) ==
    IF is_eof(tk) THEN Ret(tk, EofTok)
    ELSE IF IsAsciiAlphabetic(c)
    THEN Cont(create_tag([tk EXCEPT !.reconsume = TRUE, !.state = "TagName"], FALSE))
    ELSE Cont(tk)

StateTagName(tk, c) ==
    IF c = " " THEN Cont([tk EXCEPT !.state = "BeforeAttributeName"])
    ELSE IF c = "/" THEN Cont([tk EXCEPT !.state = "SelfClosingStartTag"])
    ELSE IF c = ">" THEN take_latest_token([tk EXCEPT !.state = "Data"])
    ELSE IF IsAsciiUppercase(c) THEN Cont(append_tag_name(tk, ToAsciiLowercase(c)))
    ELSE IF is_eof(tk) THEN Ret(tk, EofTok)
    ELSE Cont(append_tag_name(tk, c))

StateBeforeAttributeName(tk, c) ==
    IF c = "/" \/ c = ">" \/ is_eof(tk)
    THEN Cont([tk EXCEPT !.reconsume = TRUE, !.state = "AfterAttributeName"])
    ELSE Cont(start_new_attribute([tk EXCEPT !.reconsume = TRUE, !.state = "AttributeName"]))

StateAttributeName(tk, c) ==
    IF c = " " \/ c = "/" \/ c = ">" \/ is_eof(tk)
    THEN Cont([tk EXCEPT !.reconsume = TRUE, !.state = "AfterAttributeName"])
    ELSE IF c = "=" THEN Cont([tk EXCEPT !.state = "BeforeAttributeValue"])
    ELSE IF IsAsciiUppercase(c) THEN Cont(append_attribute(tk, ToAsciiLowercase(c), TRUE))
    ELSE Cont(append_attribute(tk, c, TRUE))

StateAfterAttributeName(tk, c) ==
    IF c = " " THEN Cont(tk)
    ELSE IF c = "/" THEN Cont([tk EXCEPT !.state = "SelfClosingStartTag"])
    ELSE IF c = "=" THEN Cont([tk EXCEPT !.state = "BeforeAttributeValue"])
    ELSE IF c = ">" THEN take_latest_token([tk EXCEPT !.state = "Data"])
    ELSE IF is_eof(tk) THEN Ret(tk, EofTok)
    ELSE Cont(start_new_attribute([tk EXCEPT !.reconsume = TRUE, !.state = "AttributeName"]))

StateBeforeAttributeValue(tk, c) ==
    IF c = " " THEN Cont(tk)
    ELSE IF c = "\"" THEN Cont([tk EXCEPT !.state = "AttributeValueDoubleQuoted"])
    ELSE IF c = "'" THEN Cont([tk EXCEPT !.state = "AttributeValueSingleQuoted"])
    ELSE Cont([tk EXCEPT !.reconsume = TRUE, !.state = "AttributeValueUnquoted"])

StateAttributeValueDoubleQuoted(tk, c) ==
    IF c = "\"" THEN Cont([tk EXCEPT !.state = "AfterAttributeValueQuoted"])
    ELSE IF is_eof(tk) THEN Ret(tk, EofTok)
    ELSE Cont(append_attribute(tk, c, FALSE))

\* a variant: the single-quoted state closes on the double quote
StateAttributeValueSingleQuoted_dq(tk, c) ==
    IF c = "\"" THEN Cont([tk EXCEPT !.state = "AfterAttributeValueQuoted"])
    ELSE IF is_eof(tk) THEN Ret(tk, EofTok)
    ELSE Cont(append_attribute(tk, c, FALSE))

StateAttributeValueSingleQuoted(tk, c) ==
    IF c = "'" THEN Cont([tk EXCEPT !.state = "AfterAttributeValueQuoted"])
    ELSE IF is_eof(tk) THEN Ret(tk, EofTok)
    ELSE Cont(append_attribute(tk, c, FALSE))

StateAttributeValueUnquoted(tk, c) ==
    IF c = " " THEN Cont([tk EXCEPT !.state = "BeforeAttributeName"])
    ELSE IF c = ">" THEN take_latest_token([tk EXCEPT !.state = "Data"])
    ELSE IF is_eof(tk) THEN Ret(tk, EofTok)
    ELSE Cont(append_attribute(tk, c, FALSE))

StateAfterAttributeValueQuoted(tk, c) ==
    IF c = " " THEN Cont([tk EXCEPT !.state = "BeforeAttributeName"])
    ELSE IF c = "/" THEN Cont([tk EXCEPT !.state = "SelfClosingStartTag"])
    ELSE IF c = ">" THEN take_latest_token([tk EXCEPT !.state = "Data"])
    ELSE IF is_eof(tk) THEN Ret(tk, EofTok)
    ELSE Cont([tk EXCEPT !.reconsume = TRUE, !.state = "BeforeAttributeValue"])

StateSelfClosingStartTag(tk, c) ==
    IF c = ">"
    THEN LET flagged == set_self_closing_flag(tk)
         IN  IF flagged.panicked THEN Ret(flagged, PanicTok)
             ELSE take_latest_token([flagged EXCEPT !.state = "Data"])
    ELSE IF is_eof(tk) THEN Ret(tk, EofTok)
    ELSE Cont(tk)

StateScriptData(tk, c) ==
    IF c = "<" THEN Cont([tk EXCEPT !.state = "ScriptDataLessThanSign"])
    ELSE IF is_eof(tk) THEN Ret(tk, EofTok)
    ELSE Ret(tk, CharTok(c))

StateScriptDataLessThanSign(tk, c) ==
    IF c = "/" THEN Cont([tk EXCEPT !.buf = <<>>, !.state = "ScriptDataEndTagOpen"])
    ELSE Ret([tk EXCEPT !.reconsume = TRUE, !.state = "ScriptData"], CharTok("<"))

StateScriptDataEndTagOpen(tk, c) ==
    IF IsAsciiAlphabetic(c)
    THEN Cont(create_tag([tk EXCEPT !.reconsume = TRUE, !.state = "ScriptDataEndTagName"],
                         FALSE))
    ELSE Ret([tk EXCEPT !.reconsume = TRUE, !.state = "ScriptData"], CharTok("<"))

StateScriptDataEndTagName(tk, c) ==
    IF c = ">" THEN take_latest_token([tk EXCEPT !.state = "Data"])
    ELSE IF IsAsciiAlphabetic(c)
    THEN Cont(append_tag_name([tk EXCEPT !.buf = Append(@, c)], ToAsciiLowercase(c)))
    ELSE Cont([tk EXCEPT !.state = "TemporaryBuffer", !.buf = <<"<", "/", c>>])

StateTemporaryBuffer(tk, c) ==
    IF Len(tk.buf) = 0
    THEN Cont([tk EXCEPT !.reconsume = TRUE, !.state = "ScriptData"])
    ELSE Ret([tk EXCEPT !.reconsume = TRUE, !.buf = Tail(@)], CharTok(Head(tk.buf)))

\* `match self.state { ... }`
Dispatch(tk, c) ==
    CASE tk.state = "Data" -> StateData(tk, c)
      [] tk.state = "TagOpen" -> StateTagOpen(tk, c)
      [] tk.state = "EndTagOpen" -> StateEndTagOpen(tk, c)
      [] tk.state = "TagName" -> StateTagName(tk, c)
      [] tk.state = "BeforeAttributeName" -> StateBeforeAttributeName(tk, c)
      [] tk.state = "AttributeName" -> StateAttributeName(tk, c)
      [] tk.state = "AfterAttributeName" -> StateAfterAttributeName(tk, c)
      [] tk.state = "BeforeAttributeValue" -> StateBeforeAttributeValue(tk, c)
      [] tk.state = "AttributeValueDoubleQuoted" -> StateAttributeValueDoubleQuoted(tk, c)
      [] tk.state = "AttributeValueSingleQuoted" -> StateAttributeValueSingleQuoted(tk, c)
      [] tk.state = "AttributeValueUnquoted" -> StateAttributeValueUnquoted(tk, c)
      [] tk.state = "AfterAttributeValueQuoted" -> StateAfterAttributeValueQuoted(tk, c)
      [] tk.state = "SelfClosingStartTag" -> StateSelfClosingStartTag(tk, c)
      [] tk.state = "ScriptData" -> StateScriptData(tk, c)
      [] tk.state = "ScriptDataLessThanSign" -> StateScriptDataLessThanSign(tk, c)
      [] tk.state = "ScriptDataEndTagOpen" -> StateScriptDataEndTagOpen(tk, c)
      [] tk.state = "ScriptDataEndTagName" -> StateScriptDataEndTagName(tk, c)
      [] tk.state = "TemporaryBuffer" -> StateTemporaryBuffer(tk, c)

\* one iteration of the loop of HtmlTokenizer::next
NextLoopBody(tk) ==
    LET r == ReadInput(tk)
    IN  IF r.t.panicked THEN Ret(r.t, PanicTok) ELSE Dispatch(r.t, r.c)

\* HtmlTokenizer::next as a whole (used by the tree builder)
RECURSIVE RunLoop(_)
RunLoop(tk) ==
    The({IF r.ret.kind = "Continue" THEN RunLoop(r.t) ELSE r : r \in {NextLoopBody(tk)}})

HtmlTokenizerNext(tk) ==
    IF tk.pos >= Len(tk.input) THEN [t |-> tk, ret |-> NoneTok] ELSE RunLoop(tk)

(***************************************************************************)
(* Inputs of the HTML tokenizer.                                           *)
(***************************************************************************)
\* markup of the tests of token.rs and parser.rs, and truncated markup
InPHi == <<"<","p",">","h","i","<","/","p",">">>
InBody == <<"<","b","o","d","y",">","<","/","b","o","d","y",">">>
InAttributes == <<"<","p"," ","c","l","a","s","s","=","\"","A","\""," ","i","d","=","'","B","'"," ","f","o","o","=","b","a","r",">","<","/","p",">">>
InImg == <<"<","i","m","g"," ","/",">">>
InScriptJs == <<"<","s","c","r","i","p","t",">","j","s"," ","c","o","d","e",";","<","/","s","c","r","i","p","t",">">>
InScriptLt == <<"<","s","c","r","i","p","t",">","a","<","b",">","c","<","/","s","c","r","i","p","t",">">>
InTruncTagName == <<"<","p">>
InTruncEndTagOpen == <<"<","/">>
InTruncAttrName == <<"<","p"," ","c","l","a","s","s">>
InTruncQuoted == <<"<","p"," ","c","l","a","s","s","=","\"","a">>
InAfterHtml == <<"<","b","o","d","y",">","<","/","h","t","m","l",">","<","p",">">>
InStrayEndP == <<"<","b","o","d","y",">","<","/","p",">">>
InUnclosedP == <<"<","b","o","d","y",">","<","p",">","<","/","h","t","m","l",">">>
\* end tags written with an attribute and with a slash
InEndTagAttribute == <<"<","/","p"," ","c","l","a","s","s","=","a",">">>
InEndTagSlash == <<"<","/","p","/",">">>
InHtmlHeadBody == <<"<","h","t","m","l",">","<","h","e","a","d",">","<","/","h","e","a","d",">","<","b","o","d","y",">","<","/","b","o","d","y",">","<","/","h","t","m","l",">">>

TruncatedInputs == {InTruncTagName, InTruncEndTagOpen, InTruncAttrName, InTruncQuoted}

NamedInputs ==
    {InPHi, InBody, InAttributes, InImg, InScriptJs, InScriptLt, InHtmlHeadBody,
     InAfterHtml, InStrayEndP, InUnclosedP,
     InEndTagAttribute, InEndTagSlash}
        \cup TruncatedInputs

TokAlphabet == {"<", ">", "/", "p", "S", " ", "=", "\""}

RawCase(text) == [kind |-> "raw", text |-> text, items |-> <<>>, name |-> <<>>,
                  attrs |-> <<>>, space |-> FALSE, slash |-> FALSE]

\* a sequence of complete tags and text characters
StartItem(name) == [kind |-> "start", name |-> name, c |-> ""]
EndItem(name) == [kind |-> "end", name |-> name, c |-> ""]
CharItem(c) == [kind |-> "char", name |-> <<>>, c |-> c]

ItemSet == {StartItem(<<"p">>), EndItem(<<"p">>), StartItem(<<"H","1">>), EndItem(<<"a">>),
            CharItem("h"), CharItem(" "), CharItem(">")}

ItemsPHi == <<StartItem(<<"p">>), CharItem("h"), CharItem("i"), EndItem(<<"p">>)>>

ItemsCase(items) == [kind |-> "items", text |-> <<>>, items |-> items, name |-> <<>>,
                     attrs |-> <<>>, space |-> FALSE, slash |-> FALSE]

RenderItem(it) ==
    CASE it.kind = "start" -> <<"<">> \o it.name \o <<">">>
      [] it.kind = "end" -> <<"<", "/">> \o it.name \o <<">">>
      [] it.kind = "char" -> <<it.c>>

\* one start tag: name, attributes written name="v", name='v' or name=v after single
\* spaces, an optional space and an optional slash before the closing >
WrittenAttr(name, value, quote) == [name |-> name, value |-> value, quote |-> quote]

AttrSet ==
    {WrittenAttr(n, v, "\"") : n \in {<<"i","d">>, <<"c">>}, v \in {<<"A">>, <<"x"," ",">">>}}
    \cup {WrittenAttr(n, v, "'") : n \in {<<"i","d">>, <<"c">>}, v \in {<<"B">>, <<>>}}
    \cup {WrittenAttr(n, v, "") : n \in {<<"i","d">>, <<"c">>}, v \in {<<"b","a","r">>}}

AttrsOfTest == <<WrittenAttr(<<"c","l","a","s","s">>, <<"A">>, "\""),
                 WrittenAttr(<<"i","d">>, <<"B">>, "'"),
                 WrittenAttr(<<"f","o","o">>, <<"b","a","r">>, "")>>

TagCase(name, attrs, space, slash) ==
    [kind |-> "tag", text |-> <<>>, items |-> <<>>, name |-> name,
     attrs |-> attrs, space |-> space, slash |-> slash]

RenderAttr(a) ==
    <<" ">> \o a.name \o <<"=">>
        \o (IF a.quote = "" THEN a.value ELSE <<a.quote>> \o a.value \o <<a.quote>>)

Render(g) ==
    CASE g.kind = "raw" -> g.text
      [] g.kind = "items" -> Flatten([i \in 1..Len(g.items) |-> RenderItem(g.items[i])])
      [] g.kind = "tag" ->
            <<"<">> \o g.name \o Flatten([i \in 1..Len(g.attrs) |-> RenderAttr(g.attrs[i])])
                \o (IF g.space THEN <<" ">> ELSE <<>>)
                \o (IF g.slash THEN <<"/">> ELSE <<>>) \o <<">">>

TokCases ==
    {RawCase(s) : s \in SeqsUpTo(TokAlphabet, MaxInputLen) \cup NamedInputs}
    \cup {ItemsCase(s) : s \in SeqsUpTo(ItemSet, MaxItems) \cup {ItemsPHi}}
    \cup {TagCase(n, a, sp, sl) : n \in {<<"p">>, <<"i","m","g">>},
                                  a \in SeqsUpTo(AttrSet, MaxAttrs) \cup {AttrsOfTest},
                                  sp \in BOOLEAN, sl \in BOOLEAN}

(***************************************************************************)
(* The caller of HtmlTokenizer::next: successive calls, each one run one   *)
(* loop iteration at a time.                                               *)
(***************************************************************************)
NoneCount == Cardinality({i \in 1..Len(emitted) : emitted[i] = NoneTok})

\* the tree builder and the CSS parser are not running
ParserOff == [window |-> <<>>, mode |-> "Initial", original_insertion_mode |-> "Initial",
              stack_of_open_elements |-> <<>>, panicked |-> FALSE]
CssOff == [pos |-> 0, input |-> <<>>, peeked |-> <<>>, panicked |-> FALSE]

\* Url::new(url)
NewUrl(text) == [url |-> text, host |-> <<>>, port |-> <<>>, path |-> <<>>,
                 searchpart |-> <<>>]
UrlOff == NewUrl(<<>>)

InitTok ==
    /\ given \in TokCases
    /\ t = NewHtmlTokenizer(Render(given))
    /\ tpc = "idle"
    /\ emitted = <<>>
    /\ parser = ParserOff /\ token = NoneTok /\ pc = "off"
    /\ css = CssOff /\ cpc = "off" /\ cframe = <<>>
    /\ url = UrlOff /\ upc = "off" /\ returned = <<>>

\* entry of next: `if self.pos >= self.input.len() { return None; }`
TokCall ==
    /\ tpc = "idle"
    /\ NoneCount < MaxNoneCalls
    /\ IF t.pos >= Len(t.input)
       THEN emitted' = Append(emitted, NoneTok) /\ tpc' = "idle"
       ELSE emitted' = emitted /\ tpc' = "loop"
    /\ UNCHANGED <<given, t, parser, token, pc, css, cpc, cframe, url, upc, returned>>

\* one iteration of the loop of next
TokLoop ==
    /\ tpc = "loop"
    /\ LET r == NextLoopBody(t)
       IN  /\ t' = r.t
           /\ tpc' = CASE r.ret.kind = "Continue" -> "loop"
                       [] r.ret.kind = "Panic" -> "panic"
                       [] OTHER -> "idle"
           /\ emitted' = IF r.ret.kind \in {"Continue", "Panic"} THEN emitted
                          ELSE Append(emitted, r.ret)
    /\ UNCHANGED <<given, parser, token, pc, css, cpc, cframe, url, upc, returned>>

NextTok == TokCall \/ TokLoop

SpecTok == InitTok /\ [][NextTok]_vars

(***************************************************************************)
(* DOM nodes.  The Rc<RefCell<Node>> graph is an arena: a node is its      *)
(* index in window, 0 is None, node 1 is the Document of the Window.       *)
(***************************************************************************)
TagHtml == <<"h","t","m","l">>
TagHead == <<"h","e","a","d">>
TagStyle == <<"s","t","y","l","e">>
TagScript == <<"s","c","r","i","p","t">>
TagBody == <<"b","o","d","y">>
TagP == <<"p">>
TagH1 == <<"h","1">>
TagH2 == <<"h","2">>
TagA == <<"a">>

\* ElementKind::from_str is Ok exactly for these names
ElementKinds == {TagHtml, TagHead, TagStyle, TagScript, TagBody, TagP, TagH1, TagH2, TagA}

\* Node::new
NewNode(kind, tag, attributes, text) ==
    [kind |-> kind, tag |-> tag, attributes |-> attributes, text |-> text,
     first_child |-> 0, last_child |-> 0, next_sibling |-> 0,
     previous_sibling |-> 0, parent |-> 0]

\* Window::new: the Document node alone
NewWindow == <<NewNode("Document", <<>>, <<>>, <<>>)>>

\* Node::element_kind: Some(kind) for an element, None (here <<>>) otherwise
element_kind(node) == IF node.kind = "Element" THEN node.tag ELSE <<>>

\* HtmlParser::new
NewHtmlParser ==
    [window |-> NewWindow, mode |-> "Initial", original_insertion_mode |-> "Initial",
     stack_of_open_elements |-> <<>>, panicked |-> FALSE]

PAbort(p) == [p EXCEPT !.panicked = TRUE]

\* the loop of insert_element that walks next_sibling to the last sibling
RECURSIVE LastSibling(_, _)
LastSibling(window, n) ==
    IF window[n].next_sibling # 0 THEN LastSibling(window, window[n].next_sibling) ELSE n

CurrentNode(p) ==
    IF p.stack_of_open_elements = <<>> THEN 1
    ELSE p.stack_of_open_elements[Len(p.stack_of_open_elements)]

\* a variant: the new node is linked after the first child, not after the last one
insert_element_after_first(p, tag, attributes) ==
    LET current == CurrentNode(p)
        node == Len(p.window) + 1
        first == p.window[current].first_child
        created == Append(p.window, NewNode("Element", tag, attributes, <<>>))
        linked ==
            IF first # 0
            THEN [created EXCEPT ![first].next_sibling = node,
                                 ![node].previous_sibling = first]
            ELSE [created EXCEPT ![current].first_child = node]
    IN  [p EXCEPT !.window = [linked EXCEPT ![current].last_child = node,
                                            ![node].parent = current],
                  !.stack_of_open_elements = Append(@, node)]

\* a variant: the new node's next_sibling is set to the first child of the current node
insert_element_closes_ring(p, tag, attributes) ==
    LET current == CurrentNode(p)
        node == Len(p.window) + 1
        first == p.window[current].first_child
        created == Append(p.window, NewNode("Element", tag, attributes, <<>>))
        linked ==
            IF first # 0
            THEN [created EXCEPT ![LastSibling(p.window, first)].next_sibling = node,
                                 ![node].previous_sibling = first,
                                 ![node].next_sibling = first]
            ELSE [created EXCEPT ![current].first_child = node]
    IN  [p EXCEPT !.window = [linked EXCEPT ![current].last_child = node,
                                            ![node].parent = current],
                  !.stack_of_open_elements = Append(@, node)]

insert_element(p, tag, attributes) ==
    LET current == CurrentNode(p)
        node == Len(p.window) + 1
        first == p.window[current].first_child
        created == Append(p.window, NewNode("Element", tag, attributes, <<>>))
        linked ==
            IF first # 0
            THEN [created EXCEPT ![LastSibling(p.window, first)].next_sibling = node,
                                 ![node].previous_sibling = first]
            ELSE [created EXCEPT ![current].first_child = node]
    IN  [p EXCEPT !.window = [linked EXCEPT ![current].last_child = node,
                                            ![node].parent = current],
                  !.stack_of_open_elements = Append(@, node)]

\* a variant: the entry below the current node is removed
pop_current_node_below(p, kind) ==
    IF p.stack_of_open_elements = <<>> THEN [p |-> p, popped |-> FALSE]
    ELSE IF element_kind(p.window[CurrentNode(p)]) = kind
    THEN [p |-> [p EXCEPT !.stack_of_open_elements =
                     IF Len(@) = 1 THEN <<>>
                     ELSE SubSeq(@, 1, Len(@) - 2) \o <<@[Len(@)]>>],
          popped |-> TRUE]
    ELSE [p |-> p, popped |-> FALSE]

\* returns the parser and the bool result
pop_current_node(p, kind) ==
    IF p.stack_of_open_elements = <<>> THEN [p |-> p, popped |-> FALSE]
    ELSE IF element_kind(p.window[CurrentNode(p)]) = kind
    THEN [p |-> [p EXCEPT !.stack_of_open_elements = SubSeq(@, 1, Len(@) - 1)],
          popped |-> TRUE]
    ELSE [p |-> p, popped |-> FALSE]

contain_in_stack(p, kind) ==
    \E i \in 1..Len(p.stack_of_open_elements) :
        element_kind(p.window[p.stack_of_open_elements[i]]) = kind

\* the loop of pop_until: pop until an element of the kind has been popped
RECURSIVE PopLoop(_, _, _)
PopLoop(window, stack, kind) ==
    IF stack = <<>> THEN stack
    ELSE IF element_kind(window[stack[Len(stack)]]) = kind
    THEN SubSeq(stack, 1, Len(stack) - 1)
    ELSE PopLoop(window, SubSeq(stack, 1, Len(stack) - 1), kind)

pop_until(p, kind) ==
    IF ~contain_in_stack(p, kind) THEN PAbort(p)
    ELSE [p EXCEPT !.stack_of_open_elements = PopLoop(p.window, @, kind)]

\* a variant: a space or newline under an element starts a text node like any character
insert_char_keeps_space(p, c) ==
    IF p.stack_of_open_elements = <<>> THEN p
    ELSE LET current == CurrentNode(p)
             node == Len(p.window) + 1
             first == p.window[current].first_child
             created == Append(p.window, NewNode("Text", <<>>, <<>>, <<c>>))
             linked ==
                 IF first # 0
                 THEN [created EXCEPT ![first].next_sibling = node,
                                      ![node].previous_sibling = first]
                 ELSE [created EXCEPT ![current].first_child = node]
         IN  IF p.window[current].kind = "Text"
             THEN [p EXCEPT !.window[current].text = Append(@, c)]
             ELSE [p EXCEPT !.window = [linked EXCEPT ![current].last_child = node,
                                                     ![node].parent = current],
                            !.stack_of_open_elements = Append(@, node)]

insert_char(p, c) ==
    IF p.stack_of_open_elements = <<>> THEN p
    ELSE LET current == CurrentNode(p)
             node == Len(p.window) + 1
             first == p.window[current].first_child
             created == Append(p.window, NewNode("Text", <<>>, <<>>, <<c>>))
             linked ==
                 IF first # 0
                 THEN [created EXCEPT ![first].next_sibling = node,
                                      ![node].previous_sibling = first]
                 ELSE [created EXCEPT ![current].first_child = node]
         IN  IF p.window[current].kind = "Text"
             THEN [p EXCEPT !.window[current].text = Append(@, c)]
             ELSE IF c = "\n" \/ c = " " THEN p
             ELSE [p EXCEPT !.window = [linked EXCEPT ![current].last_child = node,
                                                     ![node].parent = current],
                            !.stack_of_open_elements = Append(@, node)]

(***************************************************************************)
(* HtmlParser::construct_tree.  m is the running call: the parser (p), its *)
(* tokenizer (t), the local token and whether the call has returned.       *)
(***************************************************************************)
Machine(p, tk, tok, got) ==
    [p |-> p, t |-> tk, token |-> tok, got |-> got, returned |-> FALSE]

\* `token = self.t.next()`
Advance(m) ==
    LET r == HtmlTokenizerNext(m.t)
    IN  IF r.ret.kind = "Panic"
        THEN [m EXCEPT !.t = r.t, !.p = PAbort(m.p)]
        ELSE [m EXCEPT !.t = r.t, !.token = r.ret, !.got = Append(@, r.ret)]

Return(m) == [m EXCEPT !.returned = TRUE]
With(m, p) == [m EXCEPT !.p = p]
SetMode(m, mode) == [m EXCEPT !.p.mode = mode]
IsWhitespace(c) == c = " " \/ c = "\n"
IsEnd(tok) == tok.kind \in {"Eof", "None"}

\* a variant: a token that is not a character moves the builder on to BeforeHtml
ModeInitial_to_BeforeHtml(m) ==
    IF m.token.kind = "Char" THEN Advance(m) ELSE SetMode(m, "BeforeHtml")

\* a variant: every token, characters included, is handed on to BeforeHtml
ModeInitial_keeps_chars(m) == SetMode(m, "BeforeHtml")

ModeInitial(m) ==
    IF m.token.kind = "Char" THEN Advance(m) ELSE m

ModeBeforeHtml(m) ==
    IF m.token.kind = "Char" /\ IsWhitespace(m.token.c) THEN Advance(m)
    ELSE IF m.token.kind = "StartTag" /\ m.token.tag = TagHtml
    THEN Advance(SetMode(With(m, insert_element(m.p, m.token.tag, m.token.attributes)),
                         "BeforeHead"))
    ELSE IF IsEnd(m.token) THEN Return(m)
    ELSE SetMode(With(m, insert_element(m.p, TagHtml, <<>>)), "BeforeHead")

ModeBeforeHead(m) ==
    IF m.token.kind = "Char" /\ IsWhitespace(m.token.c) THEN Advance(m)
    ELSE IF m.token.kind = "StartTag" /\ m.token.tag = TagHead
    THEN Advance(SetMode(With(m, insert_element(m.p, m.token.tag, m.token.attributes)),
                         "InHead"))
    ELSE IF IsEnd(m.token) THEN Return(m)
    ELSE SetMode(With(m, insert_element(m.p, TagHead, <<>>)), "InHead")

ModeInHead(m) ==
    IF m.token.kind = "Char" /\ IsWhitespace(m.token.c)
    THEN Advance(With(m, insert_char(m.p, m.token.c)))
    ELSE IF m.token.kind = "StartTag" /\ m.token.tag \in {TagStyle, TagScript}
    THEN Advance(SetMode(
            With(m, [insert_element(m.p, m.token.tag, m.token.attributes)
                        EXCEPT !.original_insertion_mode = m.p.mode]),
            "Text"))
    ELSE IF m.token.kind = "StartTag"
            /\ (m.token.tag = TagBody \/ m.token.tag \in ElementKinds)
    THEN LET popped == pop_until(m.p, TagHead)
         IN  IF popped.panicked THEN With(m, popped)
             ELSE SetMode(With(m, popped), "AfterHead")
    ELSE IF m.token.kind = "EndTag" /\ m.token.tag = TagHead
    THEN LET advanced == Advance(SetMode(m, "AfterHead"))
         IN  IF advanced.p.panicked THEN advanced
             ELSE With(advanced, pop_until(advanced.p, TagHead))
    ELSE IF IsEnd(m.token) THEN Return(m)
    ELSE Advance(m)

ModeAfterHead(m) ==
    IF m.token.kind = "Char" /\ IsWhitespace(m.token.c)
    THEN Advance(With(m, insert_char(m.p, m.token.c)))
    ELSE IF m.token.kind = "StartTag" /\ m.token.tag = TagBody
    THEN SetMode(Advance(With(m, insert_element(m.p, m.token.tag, m.token.attributes))),
                 "InBody")
    ELSE IF IsEnd(m.token) THEN Return(m)
    ELSE SetMode(With(m, insert_element(m.p, TagBody, <<>>)), "InBody")

ModeInBody(m) ==
    IF m.token.kind = "StartTag"
    THEN IF m.token.tag \in {TagP, TagH1, TagH2, TagA}
         THEN Advance(With(m, insert_element(m.p, m.token.tag, m.token.attributes)))
         ELSE Advance(m)
    ELSE IF m.token.kind = "EndTag"
    THEN IF m.token.tag = TagBody
         THEN LET advanced == Advance(SetMode(m, "AfterBody"))
              IN  IF advanced.p.panicked \/ ~contain_in_stack(advanced.p, TagBody)
                  THEN advanced
                  ELSE With(advanced, pop_until(advanced.p, TagBody))
         ELSE IF m.token.tag = TagHtml
         THEN LET body == pop_current_node(m.p, TagBody)
                  html == pop_current_node([body.p EXCEPT !.mode = "AfterBody"], TagHtml)
              IN  IF body.popped
                  THEN IF html.popped THEN With(m, html.p) ELSE With(m, PAbort(html.p))
                  ELSE Advance(m)
         ELSE IF m.token.tag \in {TagP, TagH1, TagH2, TagA}
         THEN LET advanced == Advance(m)
              IN  IF advanced.p.panicked THEN advanced
                  ELSE With(advanced, pop_until(advanced.p, m.token.tag))
         ELSE Advance(m)
    ELSE IF m.token.kind = "Char"
    THEN Advance(With(m, insert_char(m.p, m.token.c)))
    ELSE Return(m)

ModeText(m) ==
    IF IsEnd(m.token) THEN Return(m)
    ELSE IF m.token.kind = "EndTag" /\ m.token.tag \in {TagStyle, TagScript}
    THEN LET popped == pop_until(m.p, m.token.tag)
         IN  IF popped.panicked THEN With(m, popped)
             ELSE Advance(SetMode(With(m, popped), m.p.original_insertion_mode))
    ELSE IF m.token.kind = "Char"
    THEN Advance(With(m, insert_char(m.p, m.token.c)))
    ELSE SetMode(m, m.p.original_insertion_mode)

ModeAfterBody(m) ==
    IF m.token.kind = "Char" THEN Advance(m)
    ELSE IF m.token.kind = "EndTag" /\ m.token.tag = TagHtml
    THEN Advance(SetMode(m, "AfterAfterBody"))
    ELSE IF IsEnd(m.token) THEN Return(m)
    ELSE SetMode(m, "InBody")

ModeAfterAfterBody(m) ==
    IF m.token.kind = "Char" THEN Advance(m)
    ELSE IF IsEnd(m.token) THEN Return(m)
    ELSE SetMode(m, "InBody")

\* the body of `while token.is_some()`: `match self.mode { ... }`
LoopBody(m) ==
    CASE m.p.mode = "Initial" -> ModeInitial(m)
      [] m.p.mode = "BeforeHtml" -> ModeBeforeHtml(m)
      [] m.p.mode = "BeforeHead" -> ModeBeforeHead(m)
      [] m.p.mode = "InHead" -> ModeInHead(m)
      [] m.p.mode = "AfterHead" -> ModeAfterHead(m)
      [] m.p.mode = "InBody" -> ModeInBody(m)
      [] m.p.mode = "Text" -> ModeText(m)
      [] m.p.mode = "AfterBody" -> ModeAfterBody(m)
      [] m.p.mode = "AfterAfterBody" -> ModeAfterAfterBody(m)

(***************************************************************************)
(* The call HtmlParser::new(HtmlTokenizer::new(html)).construct_tree()     *)
(***************************************************************************)
TreeInputs == SeqsUpTo(TokAlphabet, MaxInputLen) \cup NamedInputs

\* before the caller has chosen the markup
NoCase == [kind |-> "none", text |-> <<>>, items |-> <<>>, name |-> <<>>,
           attrs |-> <<>>, space |-> FALSE, slash |-> FALSE]

InitTree ==
    /\ given = NoCase
    /\ t = NewHtmlTokenizer(<<>>)
    /\ tpc = "off"
    /\ emitted = <<>>
    /\ parser = ParserOff /\ token = NoneTok /\ pc = "new"
    /\ css = CssOff /\ cpc = "off" /\ cframe = <<>>
    /\ url = UrlOff /\ upc = "off" /\ returned = <<>>

\* `HtmlParser::new(HtmlTokenizer::new(html))` for some markup html
NewParser ==
    /\ pc = "new"
    /\ \E s \in TreeInputs :
          /\ given' = RawCase(s)
          /\ t' = NewHtmlTokenizer(s)
    /\ parser' = NewHtmlParser
    /\ pc' = "start"
    /\ UNCHANGED <<tpc, emitted, token, css, cpc, cframe, url, upc, returned>>

Apply(m) ==
    /\ parser' = m.p
    /\ t' = m.t
    /\ token' = m.token
    /\ emitted' = m.got
    /\ pc' = IF m.p.panicked THEN "panic" ELSE IF m.returned THEN "done" ELSE "while"

\* `let mut token = self.t.next();`
ConstructTreeStart ==
    /\ pc = "start"
    /\ Apply(Advance(Machine(parser, t, token, emitted)))
    /\ UNCHANGED <<given, tpc, css, cpc, cframe, url, upc, returned>>

\* the test of `while token.is_some()`; when it fails, `self.window.clone()` is returned
ConstructTreeWhile ==
    /\ pc = "while"
    /\ pc' = IF token.kind # "None" THEN "match" ELSE "done"
    /\ UNCHANGED <<given, t, tpc, emitted, parser, token, css, cpc, cframe, url, upc, returned>>

\* one execution of the loop body
ConstructTreeMatch ==
    /\ pc = "match"
    /\ Apply(LoopBody(Machine(parser, t, token, emitted)))
    /\ UNCHANGED <<given, tpc, css, cpc, cframe, url, upc, returned>>

NextTree == NewParser \/ ConstructTreeStart \/ ConstructTreeWhile \/ ConstructTreeMatch

SpecTree == InitTree /\ [][NextTree]_vars

\* the loop runs on: a thread that can take a step takes it
FairSpecTree == SpecTree /\ WF_vars(NextTree)

(***************************************************************************)
(* get_target_element_node (dom/api.rs).  None is node 0.                  *)
(***************************************************************************)
\* `n.borrow().kind() == NodeKind::Element(Element::new(&element_kind.to_string(), ..))`
KindEq(node, kind) == node.kind = "Element" /\ element_kind(node) = kind

\* a variant: a match among the following siblings is preferred to one among the children
RECURSIVE get_target_element_node_siblings_first(_, _, _)
get_target_element_node_siblings_first(window, node, kind) ==
    IF node = 0 THEN 0
    ELSE IF KindEq(window[node], kind) THEN node
    ELSE The({The({IF result1 = 0 /\ result2 = 0 THEN 0
                   ELSE IF result2 = 0 THEN result1
                   ELSE result2 :
                   result2 \in {get_target_element_node_siblings_first(
                                    window, window[node].next_sibling, kind)}}) :
              result1 \in {get_target_element_node_siblings_first(
                               window, window[node].first_child, kind)}})

RECURSIVE get_target_element_node(_, _, _)
get_target_element_node(window, node, kind) ==
    IF node = 0 THEN 0
    ELSE IF KindEq(window[node], kind) THEN node
    ELSE The({The({IF result1 = 0 /\ result2 = 0 THEN 0
                   ELSE IF result1 = 0 THEN result2
                   ELSE result1 :
                   result2 \in {get_target_element_node(window, window[node].next_sibling,
                                                        kind)}}) :
              result1 \in {get_target_element_node(window, window[node].first_child, kind)}})

(***************************************************************************)
(* The node primitives of HtmlParser and the search of dom/api.rs, called  *)
(* one after the other on a parser made by HtmlParser::new, as the unit    *)
(* tests of the module can call them.  given is the call just made,        *)
(* returned its return value.                                              *)
(***************************************************************************)
NodeTags == {TagBody, TagP}
NodeChars == {"x", " "}

Call(op, tag, c, node) == [kind |-> "call", op |-> op, tag |-> tag, c |-> c, node |-> node]

InitNodes ==
    /\ given = NoCase
    /\ t = NewHtmlTokenizer(<<>>)
    /\ tpc = "off"
    /\ emitted = <<>>
    /\ parser = NewHtmlParser /\ token = NoneTok /\ pc = "nodes"
    /\ css = CssOff /\ cpc = "off" /\ cframe = <<>>
    /\ url = UrlOff /\ upc = "off" /\ returned = <<>>

\* the size of the tree: its nodes and the characters appended to its text buffers
RECURSIVE TextSize(_, _)
TextSize(window, n) ==
    IF n = 0 THEN 0
    ELSE (IF Len(window[n].text) > 1 THEN Len(window[n].text) - 1 ELSE 0)
             + TextSize(window, n - 1)

TreeSize == Len(parser.window) + TextSize(parser.window, Len(parser.window))

CallInsertElement ==
    /\ pc = "nodes"
    /\ TreeSize < MaxNodes
    /\ \E tag \in NodeTags :
          /\ given' = Call("insert_element", tag, "", 0)
          /\ parser' = insert_element(parser, tag, <<>>)
    /\ returned' = <<>>
    /\ UNCHANGED <<t, tpc, emitted, token, pc, css, cpc, cframe, url, upc>>

CallInsertChar ==
    /\ pc = "nodes"
    /\ TreeSize < MaxNodes
    /\ \E c \in NodeChars :
          /\ given' = Call("insert_char", <<>>, c, 0)
          /\ parser' = insert_char(parser, c)
    /\ returned' = <<>>
    /\ UNCHANGED <<t, tpc, emitted, token, pc, css, cpc, cframe, url, upc>>

CallPopCurrentNode ==
    /\ pc = "nodes"
    /\ \E kind \in NodeTags :
          /\ given' = Call("pop_current_node", kind, "", 0)
          /\ parser' = pop_current_node(parser, kind).p
          /\ returned' = <<pop_current_node(parser, kind).popped>>
    /\ UNCHANGED <<t, tpc, emitted, token, pc, css, cpc, cframe, url, upc>>

\* the assert! of pop_until ends the run
CallPopUntil ==
    /\ pc = "nodes"
    /\ \E kind \in NodeTags :
          /\ given' = Call("pop_until", kind, "", 0)
          /\ parser' = pop_until(parser, kind)
          /\ pc' = IF pop_until(parser, kind).panicked THEN "panic" ELSE "nodes"
    /\ returned' = <<>>
    /\ UNCHANGED <<t, tpc, emitted, token, css, cpc, cframe, url, upc>>

\* `get_target_element_node(node, kind)` for None or a node of the tree
CallGetTargetElementNode ==
    /\ pc = "nodes"
    /\ \E kind \in {TagP}, node \in 0..Len(parser.window) :
          /\ given' = Call("get_target_element_node", kind, "", node)
          /\ returned' = <<get_target_element_node(parser.window, node, kind)>>
    /\ UNCHANGED <<t, tpc, emitted, parser, token, pc, css, cpc, cframe, url, upc>>

NextNodes ==
    \/ CallInsertElement
    \/ CallInsertChar
    \/ CallPopCurrentNode
    \/ CallPopUntil
    \/ CallGetTargetElementNode

SpecNodes == InitNodes /\ [][NextNodes]_vars

(***************************************************************************)
(* CssToken (css/token.rs:4-30).  One record shape for every variant: s is *)
(* the String or the char of the variant, a Number is num / 10^scale.      *)
(* CssNone is Option::None.                                                *)
(***************************************************************************)
CssTok(kind, s, num, scale) == [kind |-> kind, s |-> s, num |-> num, scale |-> scale]

HashToken(s) == CssTok("HashToken", s, 0, 0)
Delim(c) == CssTok("Delim", <<c>>, 0, 0)
Number(num, scale) == CssTok("Number", <<>>, num, scale)
Ident(s) == CssTok("Ident", s, 0, 0)
StringToken(s) == CssTok("StringToken", s, 0, 0)
AtKeyword(s) == CssTok("AtKeyword", s, 0, 0)
Colon == CssTok("Colon", <<>>, 0, 0)
SemiColon == CssTok("SemiColon", <<>>, 0, 0)
OpenParenthesis == CssTok("OpenParenthesis", <<>>, 0, 0)
CloseParenthesis == CssTok("CloseParenthesis", <<>>, 0, 0)
OpenCurly == CssTok("OpenCurly", <<>>, 0, 0)
CloseCurly == CssTok("CloseCurly", <<>>, 0, 0)
CssNone == CssTok("None", <<>>, 0, 0)

DigitSeq == <<"0","1","2","3","4","5","6","7","8","9">>
IsDigit(c) == c \in RangeOf(DigitSeq)
ToDigit(c) == (CHOOSE i \in 1..Len(DigitSeq) : DigitSeq[i] = c) - 1

\* the characters an identifier goes on with: 'a'..='z' | 'A'..='Z' | '0'..='9' | '-' | '_'
IdentChars == RangeOf(LowerSeq) \cup RangeOf(UpperSeq) \cup RangeOf(DigitSeq) \cup {"-", "_"}
NumericChars == RangeOf(DigitSeq) \cup {"."}
QuoteChars == {"\"", "'"}
SkippedChars == {" ", "\n"}

\* where a loop that reads input[from], input[from + 1], ... while the character is
\* in S stops: the first index whose character is not in S, Len(input) + 1 when
\* there is none
ScanWhile(input, from, S) ==
    CHOOSE j \in from..(Len(input) + 1) :
        /\ j = Len(input) + 1 \/ input[j] \notin S
        /\ \A k \in from..(j - 1) : input[k] \in S

\* the same for a loop that goes on until the character is in S
ScanUntil(input, from, S) ==
    CHOOSE j \in from..(Len(input) + 1) :
        /\ j = Len(input) + 1 \/ input[j] \in S
        /\ \A k \in from..(j - 1) : input[k] \notin S

CssAbort(c) == [c EXCEPT !.panicked = TRUE]

\* CssTokenizer::consume_string_token, entered with pos on the opening quote: reads
\* on from pos + 1 up to a quote of either kind; input[pos] past the end is a panic
consume_string_token(c) ==
    The({
        IF j > Len(c.input)
        THEN [c |-> CssAbort([c EXCEPT !.pos = Len(c.input)]), s |-> <<>>]
        ELSE [c |-> [c EXCEPT !.pos = j - 1], s |-> SubSeq(c.input, c.pos + 2, j - 1)]
        : j \in {ScanUntil(c.input, c.pos + 2, QuoteChars)}})

\* the value accumulated over the digits: before the first '.' num * 10 + digit, after
\* it digit * 10^-k for the k-th such digit; kept as num / 10^scale
RECURSIVE NumericValue(_, _, _)
NumericValue(text, floating, acc) ==
    IF text = <<>> THEN acc
    ELSE IF Head(text) = "." THEN NumericValue(Tail(text), TRUE, acc)
    ELSE NumericValue(Tail(text), floating,
                      [num |-> acc.num * 10 + ToDigit(Head(text)),
                       scale |-> IF floating THEN acc.scale + 1 ELSE 0])

\* a variant: the cursor is left one character further than the end of the number
consume_numeric_token_past(c) ==
    The({
        [c |-> [c EXCEPT !.pos = j],
         n |-> NumericValue(SubSeq(c.input, c.pos + 1, j - 1), FALSE,
                            [num |-> 0, scale |-> 0])]
        : j \in {ScanWhile(c.input, c.pos + 1, NumericChars)}})

\* CssTokenizer::consume_numeric_token: stops on the first character that is neither
\* a digit nor '.', or at the end of the input
consume_numeric_token(c) ==
    The({
        [c |-> [c EXCEPT !.pos = j - 1],
         n |-> NumericValue(SubSeq(c.input, c.pos + 1, j - 1), FALSE,
                            [num |-> 0, scale |-> 0])]
        : j \in {ScanWhile(c.input, c.pos + 1, NumericChars)}})

\* CssTokenizer::consume_ident_token: input[pos] is taken as it is, then the
\* characters of an identifier; input[pos] past the end is a panic
consume_ident_token(c) ==
    The({
        IF j > Len(c.input)
        THEN [c |-> CssAbort([c EXCEPT !.pos = Len(c.input)]), s |-> <<>>]
        ELSE [c |-> [c EXCEPT !.pos = j - 1], s |-> SubSeq(c.input, c.pos + 1, j - 1)]
        : j \in {ScanWhile(c.input, c.pos + 2, IdentChars)}})

\* `self.pos += 1; return Some(token);`
CssRet(c, tok) == [c |-> [c EXCEPT !.pos = @ + 1], ret |-> tok]

\* the arms that call consume_ident_token: `self.pos -= 1` then the common `pos += 1`
IdentLike(r, tok) == IF r.c.panicked THEN [c |-> r.c, ret |-> CssNone]
                     ELSE CssRet([r.c EXCEPT !.pos = @ - 1], tok)

\* the arm of '@'
AtSign(c) ==
    IF /\ c.pos + 3 < Len(c.input)
       /\ IsAsciiAlphabetic(c.input[c.pos + 2])
       /\ IsAsciiAlphabetic(c.input[c.pos + 3])
       /\ IsAsciiAlphabetic(c.input[c.pos + 4])
    THEN The({
              IdentLike(r, AtKeyword(r.s))
             : r \in {consume_ident_token([c EXCEPT !.pos = @ + 1])}})
    ELSE CssRet(c, Delim("@"))

\* <CssTokenizer as Iterator>::next; c.pos is on the character ch that `match c` sees
CssMatch(c, ch) ==
    CASE ch = "(" -> CssRet(c, OpenParenthesis)
      [] ch = ")" -> CssRet(c, CloseParenthesis)
      [] ch = "," -> CssRet(c, Delim(","))
      [] ch = "." -> CssRet(c, Delim("."))
      [] ch = ":" -> CssRet(c, Colon)
      [] ch = ";" -> CssRet(c, SemiColon)
      [] ch = "{" -> CssRet(c, OpenCurly)
      [] ch = "}" -> CssRet(c, CloseCurly)
      [] ch \in QuoteChars ->
            The({
                IF r.c.panicked THEN [c |-> r.c, ret |-> CssNone]
                ELSE CssRet(r.c, StringToken(r.s))
                : r \in {consume_string_token(c)}})
      [] IsDigit(ch) ->
            The({
                CssRet([r.c EXCEPT !.pos = @ - 1], Number(r.n.num, r.n.scale))
                : r \in {consume_numeric_token(c)}})
      [] ch = "#" -> The({IdentLike(r, HashToken(r.s)) : r \in {consume_ident_token(c)}})
      [] ch = "-" -> The({IdentLike(r, Ident(r.s)) : r \in {consume_ident_token(c)}})
      [] ch = "@" -> AtSign(c)
      [] IsAsciiAlphabetic(ch) \/ ch = "_" ->
            The({IdentLike(r, Ident(r.s)) : r \in {consume_ident_token(c)}})
      [] OTHER -> [c |-> CssAbort(c), ret |-> CssNone]

\* the loop of next: ' ' and '\n' are stepped over, None once pos >= input.len()
CssTokenizerNext(c) ==
    The({
        IF j > Len(c.input)
        THEN [c |-> [c EXCEPT !.pos = j - 1], ret |-> CssNone]
        ELSE The({CssMatch(at, at.input[j]) : at \in {[c EXCEPT !.pos = j - 1]}})
        : j \in {ScanWhile(c.input, c.pos + 1, SkippedChars)}})

(***************************************************************************)
(* CssParser (css/cssom.rs).  c is the parser: the tokenizer's pos and     *)
(* input, and the slot of Peekable (<<>> when nothing is peeked).          *)
(***************************************************************************)
NewCssParser(text) == [pos |-> 0, input |-> text, peeked |-> <<>>, panicked |-> FALSE]

\* Peekable::peek
CssPeek(c) ==
    IF c.peeked # <<>> THEN [c |-> c, ret |-> c.peeked[1]]
    ELSE The({
             IF r.c.panicked THEN r
             ELSE [c |-> [r.c EXCEPT !.peeked = <<r.ret>>], ret |-> r.ret]
             : r \in {CssTokenizerNext(c)}})

\* Peekable::next
CssNext(c) ==
    IF c.peeked # <<>> THEN [c |-> [c EXCEPT !.peeked = <<>>], ret |-> c.peeked[1]]
    ELSE CssTokenizerNext(c)

TypeSelector(s) == [kind |-> "TypeSelector", name |-> s]
ClassSelector(s) == [kind |-> "ClassSelector", name |-> s]
IdSelector(s) == [kind |-> "IdSelector", name |-> s]
UnknownSelector == [kind |-> "UnknownSelector", name |-> <<>>]

\* QualifiedRule::new, Declaration
NewQualifiedRule == [selector |-> TypeSelector(<<>>), declarations |-> <<>>]
Declaration(property, value) == [property |-> property, value |-> value]

\* CssParser::consume_ident
consume_ident(c) ==
    The({
        IF r.c.panicked THEN [c |-> r.c, s |-> <<>>]
        ELSE IF r.ret.kind = "Ident" THEN [c |-> r.c, s |-> r.ret.s]
        ELSE [c |-> CssAbort(r.c), s |-> <<>>]
        : r \in {CssNext(c)}})

\* CssParser::consume_component_value
consume_component_value(c) ==
    The({
        IF r.c.panicked THEN r
        ELSE IF r.ret.kind = "None" THEN [c |-> CssAbort(r.c), ret |-> CssNone]
        ELSE r
        : r \in {CssNext(c)}})

\* a variant that gives the declaration up unless a ';' follows its value
consume_declaration_wants_semicolon(c) ==
    The({
        IF p.c.panicked \/ p.ret.kind = "None" THEN [c |-> p.c, ret |-> <<>>]
        ELSE The({
        IF i.c.panicked THEN [c |-> i.c, ret |-> <<>>]
        ELSE The({
        IF n.c.panicked \/ n.ret.kind # "Colon" THEN [c |-> n.c, ret |-> <<>>]
        ELSE The({
        IF v.c.panicked THEN [c |-> v.c, ret |-> <<>>]
        ELSE The({
        IF q.c.panicked \/ q.ret.kind # "SemiColon" THEN [c |-> q.c, ret |-> <<>>]
        ELSE [c |-> q.c, ret |-> <<Declaration(i.s, v.ret)>>]
                 : q \in {CssPeek(v.c)}})
                 : v \in {consume_component_value(n.c)}})
                 : n \in {CssNext(i.c)}})
                 : i \in {consume_ident(p.c)}})
        : p \in {CssPeek(c)}})

\* a variant: without the colon the declaration is returned as it stands, its value
\* not set
consume_declaration_without_colon(c) ==
    The({
        IF p.c.panicked \/ p.ret.kind = "None" THEN [c |-> p.c, ret |-> <<>>]
        ELSE The({
        IF i.c.panicked THEN [c |-> i.c, ret |-> <<>>]
        ELSE The({
        IF n.c.panicked THEN [c |-> n.c, ret |-> <<>>]
        ELSE IF n.ret.kind # "Colon"
        THEN [c |-> n.c, ret |-> <<Declaration(i.s, Ident(<<>>))>>]
        ELSE The({
        IF v.c.panicked THEN [c |-> v.c, ret |-> <<>>]
        ELSE [c |-> v.c, ret |-> <<Declaration(i.s, v.ret)>>]
                 : v \in {consume_component_value(n.c)}})
                 : n \in {CssNext(i.c)}})
                 : i \in {consume_ident(p.c)}})
        : p \in {CssPeek(c)}})

\* CssParser::consume_declaration; ret is <<>> for None, <<d>> for Some(d)
consume_declaration(c) ==
    \* `self.t.peek()?;`
    The({
        IF p.c.panicked \/ p.ret.kind = "None" THEN [c |-> p.c, ret |-> <<>>]
        ELSE The({
        IF i.c.panicked THEN [c |-> i.c, ret |-> <<>>]
        \* `match self.t.next() { Some(CssToken::Colon) => {} _ => return None }`
        ELSE The({
        IF n.c.panicked \/ n.ret.kind # "Colon" THEN [c |-> n.c, ret |-> <<>>]
        ELSE The({
        IF v.c.panicked THEN [c |-> v.c, ret |-> <<>>]
        ELSE [c |-> v.c, ret |-> <<Declaration(i.s, v.ret)>>]
                 : v \in {consume_component_value(n.c)}})
                 : n \in {CssNext(i.c)}})
                 : i \in {consume_ident(p.c)}})
        : p \in {CssPeek(c)}})

\* a variant: the '#' stays in the name of the IdSelector
consume_selector_keeps_hash(c) ==
    The({
        IF r.c.panicked THEN [c |-> r.c, sel |-> UnknownSelector, skip |-> FALSE]
        ELSE CASE r.ret.kind = "None" ->
                    [c |-> CssAbort(r.c), sel |-> UnknownSelector, skip |-> FALSE]
               [] r.ret.kind = "HashToken" ->
                    [c |-> r.c, sel |-> IdSelector(r.ret.s), skip |-> FALSE]
               [] r.ret.kind = "Delim" ->
                    IF r.ret.s = <<".">>
                    THEN The({
                             [c |-> i.c, sel |-> ClassSelector(i.s), skip |-> FALSE]
                             : i \in {consume_ident(r.c)}})
                    ELSE [c |-> CssAbort(r.c), sel |-> UnknownSelector, skip |-> FALSE]
               [] r.ret.kind = "Ident" ->
                    The({
                        [c |-> p.c, sel |-> TypeSelector(r.ret.s),
                         skip |-> ~p.c.panicked /\ p.ret.kind = "Colon"]
                        : p \in {CssPeek(r.c)}})
               [] r.ret.kind = "AtKeyword" ->
                    [c |-> r.c, sel |-> UnknownSelector, skip |-> TRUE]
               [] OTHER ->
                    The({
                        [c |-> n.c, sel |-> UnknownSelector, skip |-> FALSE]
                        : n \in {CssNext(r.c)}})
        : r \in {CssNext(c)}})

\* CssParser::consume_selector up to its `while` loops: sel is the Selector it will
\* return, skip tells that the loop `while peek != OpenCurly { next }` runs first
consume_selector(c) ==
    The({
        IF r.c.panicked THEN [c |-> r.c, sel |-> UnknownSelector, skip |-> FALSE]
        ELSE CASE r.ret.kind = "None" ->
                    [c |-> CssAbort(r.c), sel |-> UnknownSelector, skip |-> FALSE]
               [] r.ret.kind = "HashToken" ->
                    [c |-> r.c, sel |-> IdSelector(Tail(r.ret.s)), skip |-> FALSE]
               [] r.ret.kind = "Delim" ->
                    IF r.ret.s = <<".">>
                    THEN The({
                             [c |-> i.c, sel |-> ClassSelector(i.s), skip |-> FALSE]
                             : i \in {consume_ident(r.c)}})
                    ELSE [c |-> CssAbort(r.c), sel |-> UnknownSelector, skip |-> FALSE]
               [] r.ret.kind = "Ident" ->
                    The({
                        [c |-> p.c, sel |-> TypeSelector(r.ret.s),
                         skip |-> ~p.c.panicked /\ p.ret.kind = "Colon"]
                        : p \in {CssPeek(r.c)}})
               [] r.ret.kind = "AtKeyword" ->
                    [c |-> r.c, sel |-> UnknownSelector, skip |-> TRUE]
               [] OTHER ->
                    The({
                        [c |-> n.c, sel |-> UnknownSelector, skip |-> FALSE]
                        : n \in {CssNext(r.c)}})
        : r \in {CssNext(c)}})

\* the running call of parse_stylesheet: the parser, the function whose loop is
\* executing, and the locals of the active calls
CssMachine(c, at, f) == [c |-> c, pc |-> at, f |-> f]

NewFrame == [sheet |-> <<>>, rules |-> <<>>, at_rule |-> FALSE,
             rule |-> NewQualifiedRule, selector |-> UnknownSelector,
             declarations |-> <<>>]

CssPanic(m, c) == [m EXCEPT !.c = c, !.pc = "panic"]

\* `return rules` of consume_list_of_rules, then `sheet.set_rules(...)`
ReturnRules(m, c) == [m EXCEPT !.c = c, !.pc = "done", !.f.sheet = m.f.rules]

\* one iteration of the loop of consume_list_of_rules, up to its call of
\* consume_qualified_rule
ListOfRulesIter(m) ==
    The({
        IF p.c.panicked THEN CssPanic(m, p.c)
        ELSE IF p.ret.kind = "None" THEN ReturnRules(m, p.c)
        ELSE [m EXCEPT !.c = p.c, !.pc = "consume_qualified_rule",
                       !.f.at_rule = (p.ret.kind = "AtKeyword"),
                       !.f.rule = NewQualifiedRule]
        : p \in {CssPeek(m.c)}})

\* a variant: the rule is put in front of the rules parsed so far
QualifiedRuleReturns_prepends(m, c, ret) ==
    IF m.f.at_rule THEN [m EXCEPT !.c = c, !.pc = "consume_list_of_rules"]
    ELSE IF ret = <<>> THEN [m EXCEPT !.c = c, !.pc = "done", !.f.sheet = m.f.rules]
    ELSE [m EXCEPT !.c = c, !.pc = "consume_list_of_rules",
                   !.f.rules = <<ret[1]>> \o @]

\* a variant: the rule of an at-rule is kept like any other
QualifiedRuleReturns_keeps_at_rule(m, c, ret) ==
    IF ret = <<>> THEN [m EXCEPT !.c = c, !.pc = "done", !.f.sheet = m.f.rules]
    ELSE [m EXCEPT !.c = c, !.pc = "consume_list_of_rules",
                   !.f.rules = Append(@, ret[1])]

\* consume_qualified_rule has returned ret (<<>> for None) to consume_list_of_rules
QualifiedRuleReturns(m, c, ret) ==
    IF m.f.at_rule THEN [m EXCEPT !.c = c, !.pc = "consume_list_of_rules"]
    ELSE IF ret = <<>> THEN ReturnRules(m, c)
    ELSE [m EXCEPT !.c = c, !.pc = "consume_list_of_rules",
                   !.f.rules = Append(@, ret[1])]

\* one iteration of the loop of consume_qualified_rule
QualifiedRuleIter(m) ==
    The({
        IF p.c.panicked THEN CssPanic(m, p.c)
        ELSE IF p.ret.kind = "None" THEN QualifiedRuleReturns(m, p.c, <<>>)
        ELSE IF p.ret.kind = "OpenCurly"
        THEN [m EXCEPT !.c = CssNext(p.c).c, !.pc = "consume_list_of_declarations",
                       !.f.declarations = <<>>]
        ELSE The({
                 IF s.c.panicked THEN CssPanic(m, s.c)
                 ELSE IF s.skip
                 THEN [m EXCEPT !.c = s.c, !.pc = "consume_selector",
                                !.f.selector = s.sel]
                 ELSE [m EXCEPT !.c = s.c, !.f.rule.selector = s.sel]
                 : s \in {consume_selector(p.c)}})
        : p \in {CssPeek(m.c)}})

\* one test of `while self.t.peek() != Some(&CssToken::OpenCurly)` in consume_selector:
\* into the body of the loop, or the return of the selector
SelectorSkipIter(m) ==
    The({
        IF p.c.panicked THEN CssPanic(m, p.c)
        ELSE IF p.ret.kind # "OpenCurly"
        THEN [m EXCEPT !.c = p.c, !.pc = "consume_selector_next"]
        ELSE [m EXCEPT !.c = p.c, !.pc = "consume_qualified_rule",
                       !.f.rule.selector = m.f.selector]
        : p \in {CssPeek(m.c)}})

\* the body of that loop: `self.t.next();`, then the test again
SelectorSkipNext(m) ==
    The({
        IF n.c.panicked THEN CssPanic(m, n.c)
        ELSE [m EXCEPT !.c = n.c, !.pc = "consume_selector"]
        : n \in {CssNext(m.c)}})

\* `return declarations`, `rule.set_declarations(...)`, `return Some(rule)`
ReturnDeclarations(m, c) ==
    QualifiedRuleReturns(m, c, <<[m.f.rule EXCEPT !.declarations = m.f.declarations]>>)

\* one iteration of the loop of consume_list_of_declarations
ListOfDeclarationsIter(m) ==
    The({
        IF p.c.panicked THEN CssPanic(m, p.c)
        ELSE CASE p.ret.kind = "None" -> ReturnDeclarations(m, p.c)
               [] p.ret.kind = "CloseCurly" -> ReturnDeclarations(m, CssNext(p.c).c)
               [] p.ret.kind = "SemiColon" -> [m EXCEPT !.c = CssNext(p.c).c]
               [] p.ret.kind = "Ident" ->
                    The({
                        IF d.c.panicked THEN CssPanic(m, d.c)
                        ELSE [m EXCEPT !.c = d.c, !.f.declarations = @ \o d.ret]
                        : d \in {consume_declaration(p.c)}})
               [] OTHER ->
                    The({
                        IF n.c.panicked THEN CssPanic(m, n.c) ELSE [m EXCEPT !.c = n.c]
                        : n \in {CssNext(p.c)}})
        : p \in {CssPeek(m.c)}})

(***************************************************************************)
(* Inputs of the CSS parser.                                               *)
(***************************************************************************)
\* style sheets of the tests of cssom.rs
CssOneRule == <<"p"," ","{"," ","c","o","l","o","r",":"," ","r","e","d",";"," ","}">>
CssIdNoSemi == <<"#","i","d"," ","{"," ","c","o","l","o","r",":"," ","b","l","u","e"," ","}">>
CssClass == <<".","c","l","a","s","s"," ","{"," ","c","o","l","o","r",":"," ","r","e","d",";"," ","}">>
CssMulti == <<"p"," ","{"," ","c","o","n","t","e","n","t",":"," ","\"","H","e","y","\"",";"," ","}"," ","h","1"," ","{"," ","f","o","n","t","-","s","i","z","e",":"," ","4","0",";"," ","c","o","l","o","r",":"," ","y","e","l","l","o","w",";"," ","}">>
\* a pseudo-class selector and an at-rule
CssHover == <<"a",":","h","o","v","e","r"," ","{"," ","c","o","l","o","r",":"," ","r","e","d",";"," ","}">>
CssMedia == <<"@","m","e","d","i","a"," ","{"," ","}"," ","p"," ","{"," ","}">>

\* malformed sheets: a '.' that no identifier follows, a declaration that ends with
\* its colon
CssDotNoIdent == <<".", "{", "}">>
CssColonEnd == <<"p", "{", "c", "o", "l", "o", "r", ":">>
\* a rule that begins with a comma
CssCommaFirst == <<",", "p", "{", "}">>
\* a block that ends after a property, or after a colon, with a rule behind it
CssPropertyOnly == <<"p","{","c","o","l","o","r","}","h","1","{","f","o","n","t","-","s","i","z","e",":","4","0","}">>
CssColonOnly == <<"p","{","c","o","l","o","r",":","}","h","1","{","f","o","n","t","-","s","i","z","e",":","4","0","}">>

CssNamedInputs == {CssOneRule, CssIdNoSemi, CssClass, CssMulti, CssHover, CssMedia,
                   CssDotNoIdent, CssColonEnd, CssCommaFirst, CssPropertyOnly,
                   CssColonOnly}

CssAlphabet == {"p", "{", "}", ":", ";", " ", "#", "4"}

CssRawCase(s) == [kind |-> "raw", text |-> s, selector |-> <<>>, decls |-> <<>>,
                  semi |-> FALSE, spaced |-> FALSE, rules |-> <<>>]

\* one rule as its author wrote it: a selector and a block of declarations
\* `property: value`, each followed by ';' except perhaps the last (semi), laid out
\* with spaces as in the tests or with none (spaced)
BlockCase(selector, decls, semi, spaced) ==
    [kind |-> "block", text |-> <<>>, selector |-> selector, decls |-> decls,
     semi |-> semi, spaced |-> spaced, rules |-> <<>>]

\* a declaration as written: the property, the text of its value, and the value meant
WrittenDecl(property, text, value) == [property |-> property, text |-> text, value |-> value]

DeclColorRed == WrittenDecl(<<"c","o","l","o","r">>, <<"r","e","d">>, Ident(<<"r","e","d">>))
DeclColorBlue == WrittenDecl(<<"c","o","l","o","r">>, <<"b","l","u","e">>,
                             Ident(<<"b","l","u","e">>))
DeclFontSize == WrittenDecl(<<"f","o","n","t","-","s","i","z","e">>, <<"4","0">>,
                            Number(40, 0))
DeclContent == WrittenDecl(<<"c","o","n","t","e","n","t">>, <<"\"","H","e","y","\"">>,
                           StringToken(<<"H","e","y">>))

DeclColorYellow == WrittenDecl(<<"c","o","l","o","r">>, <<"y","e","l","l","o","w">>,
                               Ident(<<"y","e","l","l","o","w">>))

DeclSet == {DeclColorRed, DeclColorBlue, DeclFontSize, DeclContent}
SelectorSet == {<<"p">>, <<"#","i","d">>, <<".","c">>}

RenderDecl(g, i) ==
    (IF g.spaced THEN <<" ">> ELSE <<>>)
        \o g.decls[i].property \o <<":">>
        \o (IF g.spaced THEN <<" ">> ELSE <<>>)
        \o g.decls[i].text
        \o (IF i < Len(g.decls) \/ g.semi THEN <<";">> ELSE <<>>)

RenderBlock(g) ==
    g.selector \o (IF g.spaced THEN <<" ">> ELSE <<>>) \o <<"{">>
        \o Flatten([i \in 1..Len(g.decls) |-> RenderDecl(g, i)])
        \o (IF g.spaced THEN <<" ">> ELSE <<>>) \o <<"}">>

\* a rule as written: the text of its selector, the Selector meant, its declarations
WrittenRule(text, selector, decls) == [text |-> text, selector |-> selector, decls |-> decls]

RuleContent == WrittenRule(<<"p">>, TypeSelector(<<"p">>), <<DeclContent>>)
RuleH1 == WrittenRule(<<"h","1">>, TypeSelector(<<"h","1">>), <<DeclFontSize, DeclColorYellow>>)
RuleId == WrittenRule(<<"#","i","d">>, IdSelector(<<"i","d">>), <<DeclColorBlue>>)
RuleClass == WrittenRule(<<".","c","l","a","s","s">>, ClassSelector(<<"c","l","a","s","s">>),
                         <<DeclColorRed>>)

RuleSet == {RuleContent, RuleH1, RuleId, RuleClass}

\* the rules written around an at-rule or before a rule that is cut off
FewRuleSet == {RuleH1, RuleId}

\* a style sheet of well-formed rules, one after the other
SheetCase(rules, semi, spaced) ==
    [kind |-> "sheet", text |-> <<>>, selector |-> <<>>, decls |-> <<>>,
     semi |-> semi, spaced |-> spaced, rules |-> rules]

RenderRule(g, i) ==
    (IF i > 1 /\ g.spaced THEN <<" ">> ELSE <<>>)
        \o RenderBlock(BlockCase(g.rules[i].text, g.rules[i].decls, g.semi, g.spaced))

\* an at-rule `@kw ... { declarations }` followed by rules; text is `@kw ...`
AtCase(text, decls, rules, semi, spaced) ==
    [kind |-> "at", text |-> text, selector |-> <<>>, decls |-> decls,
     semi |-> semi, spaced |-> spaced, rules |-> rules]

AtHeadSet == {<<"@","m","e","d","i","a">>,
              <<"@","f","o","n","t","-","f","a","c","e">>,
              <<"@","m","e","d","i","a"," ","p">>,
              <<"@","m","e","d","i","a"," ","(","p",":","4",")">>}

AtBodySet == {<<>>, <<DeclColorRed>>, <<DeclFontSize, DeclContent>>}

\* complete rules followed by the selector of a rule that is cut off before its '{'
TruncatedCase(text, rules, semi, spaced) ==
    [kind |-> "truncated", text |-> text, selector |-> <<>>, decls |-> <<>>,
     semi |-> semi, spaced |-> spaced, rules |-> rules]

TruncatedSelectorSet == {<<"p"," ">>, <<"#","i","d"," ">>, <<".","c","\n">>,
                         <<"a",":","h","o","v","e","r"," ">>}

\* a block in which a fragment that begins with an identifier no colon follows
\* (text) stands between well-formed declarations, each closed by ';'
MalformedCase(selector, before, text, after, semi, spaced) ==
    [kind |-> "malformed", text |-> text, selector |-> selector, decls |-> <<>>,
     semi |-> semi, spaced |-> spaced, rules |-> <<>>, before |-> before,
     after |-> after]

MalformedSet == {<<"b","a","d">>, <<"b","a","d"," ","4">>, <<"b","a","d"," ","r","e","d">>}
FewDeclSet == {DeclColorRed, DeclFontSize}

RenderMalformed(g) ==
    g.selector \o (IF g.spaced THEN <<" ">> ELSE <<>>) \o <<"{">>
        \o Flatten([i \in 1..Len(g.before) |->
                      (IF g.spaced THEN <<" ">> ELSE <<>>)
                      \o g.before[i].property \o <<":">>
                      \o (IF g.spaced THEN <<" ">> ELSE <<>>)
                      \o g.before[i].text \o <<";">>])
        \o (IF g.spaced THEN <<" ">> ELSE <<>>) \o g.text
        \o (IF g.after # <<>> \/ g.semi THEN <<";">> ELSE <<>>)
        \o Flatten([i \in 1..Len(g.after) |->
                      (IF g.spaced THEN <<" ">> ELSE <<>>)
                      \o g.after[i].property \o <<":">>
                      \o (IF g.spaced THEN <<" ">> ELSE <<>>)
                      \o g.after[i].text
                      \o (IF i < Len(g.after) \/ g.semi THEN <<";">> ELSE <<>>)])
        \o (IF g.spaced THEN <<" ">> ELSE <<>>) \o <<"}">>

RenderCss(g) ==
    CASE g.kind = "raw" -> g.text
      [] g.kind = "malformed" -> RenderMalformed(g)
      [] g.kind = "truncated" ->
            Flatten([i \in 1..Len(g.rules) |->
                       RenderBlock(BlockCase(g.rules[i].text, g.rules[i].decls,
                                             g.semi, g.spaced))
                       \o (IF g.spaced THEN <<" ">> ELSE <<>>)])
                \o g.text
      [] g.kind = "block" -> RenderBlock(g)
      [] g.kind = "sheet" -> Flatten([i \in 1..Len(g.rules) |-> RenderRule(g, i)])
      [] g.kind = "at" ->
            g.text \o RenderBlock(BlockCase(<<>>, g.decls, g.semi, g.spaced))
                \o Flatten([i \in 1..Len(g.rules) |->
                       (IF g.spaced THEN <<" ">> ELSE <<>>)
                       \o RenderBlock(BlockCase(g.rules[i].text, g.rules[i].decls,
                                                g.semi, g.spaced))])

CssCases ==
    {CssRawCase(s) : s \in SeqsUpTo(CssAlphabet, MaxCssLen) \cup CssNamedInputs}
    \cup {BlockCase(s, d, semi, spaced) : s \in SelectorSet, d \in SeqsUpTo(DeclSet, MaxDecls),
                                          semi \in BOOLEAN, spaced \in BOOLEAN}
    \cup {SheetCase(r, semi, spaced) : r \in SeqsUpTo(RuleSet, MaxRules),
                                       semi \in BOOLEAN, spaced \in BOOLEAN}
    \cup {TruncatedCase(s, r, semi, spaced) : s \in TruncatedSelectorSet,
                                              r \in SeqsUpTo(FewRuleSet, MaxRules),
                                              semi \in BOOLEAN, spaced \in BOOLEAN}
    \cup {AtCase(h, d, r, semi, spaced) : h \in AtHeadSet, d \in AtBodySet,
                                          r \in SeqsUpTo(FewRuleSet, MaxRules),
                                          semi \in BOOLEAN, spaced \in BOOLEAN}
    \cup {MalformedCase(<<"p">>, b, m, a, semi, spaced) :
               b \in SeqsUpTo(FewDeclSet, MaxDecls - 1), m \in MalformedSet,
               a \in SeqsUpTo(FewDeclSet, MaxDecls - 1),
               semi \in BOOLEAN, spaced \in BOOLEAN}

(***************************************************************************)
(* The call CssParser::new(CssTokenizer::new(style)).parse_stylesheet()    *)
(***************************************************************************)
InitCss ==
    /\ given = NoCase
    /\ t = NewHtmlTokenizer(<<>>)
    /\ tpc = "off"
    /\ emitted = <<>>
    /\ parser = ParserOff /\ token = NoneTok /\ pc = "off"
    /\ css = CssOff /\ cpc = "new" /\ cframe = NewFrame
    /\ url = UrlOff /\ upc = "off" /\ returned = <<>>

\* `CssParser::new(CssTokenizer::new(style))` for some style sheet
CssNew ==
    /\ cpc = "new"
    /\ \E g \in CssCases :
          /\ given' = g
          /\ css' = NewCssParser(RenderCss(g))
    /\ cpc' = "parse_stylesheet"
    /\ UNCHANGED <<t, tpc, emitted, parser, token, pc, cframe, url, upc, returned>>

CssApply(m) ==
    /\ css' = m.c
    /\ cpc' = m.pc
    /\ cframe' = m.f
    /\ UNCHANGED <<given, t, tpc, emitted, parser, token, pc, url, upc, returned>>

\* `let mut sheet = StyleSheet::new();` and the entry of consume_list_of_rules
ParseStylesheet ==
    /\ cpc = "parse_stylesheet"
    /\ CssApply(CssMachine(css, "consume_list_of_rules", NewFrame))

ConsumeListOfRules ==
    /\ cpc = "consume_list_of_rules"
    /\ \E m \in {ListOfRulesIter(CssMachine(css, cpc, cframe))} : CssApply(m)

ConsumeQualifiedRule ==
    /\ cpc = "consume_qualified_rule"
    /\ \E m \in {QualifiedRuleIter(CssMachine(css, cpc, cframe))} : CssApply(m)

ConsumeSelector ==
    /\ cpc = "consume_selector"
    /\ \E m \in {SelectorSkipIter(CssMachine(css, cpc, cframe))} : CssApply(m)

ConsumeSelectorNext ==
    /\ cpc = "consume_selector_next"
    /\ \E m \in {SelectorSkipNext(CssMachine(css, cpc, cframe))} : CssApply(m)

ConsumeListOfDeclarations ==
    /\ cpc = "consume_list_of_declarations"
    /\ \E m \in {ListOfDeclarationsIter(CssMachine(css, cpc, cframe))} : CssApply(m)

NextCss ==
    \/ CssNew
    \/ ParseStylesheet
    \/ ConsumeListOfRules
    \/ ConsumeQualifiedRule
    \/ ConsumeSelector
    \/ ConsumeSelectorNext
    \/ ConsumeListOfDeclarations

SpecCss == InitCss /\ [][NextCss]_vars

\* parse_stylesheet runs on as long as it can take a step
FairSpecCss == SpecCss /\ WF_vars(NextCss)

(***************************************************************************)
(* The CssTokenizer on its own, as the tests of css/token.rs drive it:     *)
(* next is called until it returns None; emitted holds the tokens          *)
(* returned so far.                                                        *)
(***************************************************************************)
CssTokAlphabet == {"4", "0", ".", ";", " ", "p"}

\* texts with strings: a quote of the other kind inside, a string never closed
CssQuoteAlphabet == {"\"", "'", "a", ";"}
CssDoubleWithSingle == <<"\"", "a", "'", "b", "\"">>
CssSingleWithDouble == <<"'", "a", "\"", "b", "'", ";">>
CssUnclosedString == <<"\"", "a", "b", "c">>
\* texts that end inside a token
CssEndsInIdent == <<"c","o","l","o","r",":"," ","r","e","d">>
CssEndsInHash == <<"#", "i", "d">>
CssEndsInAtKeyword == <<"@", "m", "e", "d", "i", "a">>

CssTokNamedInputs == {CssDoubleWithSingle, CssSingleWithDouble, CssUnclosedString,
                      CssEndsInIdent, CssEndsInHash, CssEndsInAtKeyword}

CssTokCases ==
    {CssRawCase(s) : s \in SeqsUpTo(CssTokAlphabet, MaxCssLen)
                           \cup SeqsUpTo(CssQuoteAlphabet, MaxCssLen)
                           \cup CssNamedInputs \cup CssTokNamedInputs}

InitCssTok ==
    /\ given = NoCase
    /\ t = NewHtmlTokenizer(<<>>)
    /\ tpc = "off"
    /\ emitted = <<>>
    /\ parser = ParserOff /\ token = NoneTok /\ pc = "off"
    /\ css = CssOff /\ cpc = "tok_new" /\ cframe = <<>>
    /\ url = UrlOff /\ upc = "off" /\ returned = <<>>

\* `CssTokenizer::new(style)`
CssTokNew ==
    /\ cpc = "tok_new"
    /\ \E g \in CssTokCases :
          /\ given' = g
          /\ css' = NewCssParser(RenderCss(g))
    /\ cpc' = "tok_next"
    /\ UNCHANGED <<t, tpc, emitted, parser, token, pc, cframe, url, upc, returned>>

\* one call `t.next()`
CssTokNext ==
    /\ cpc = "tok_next"
    /\ \E r \in {CssTokenizerNext(css)} :
          /\ css' = r.c
          /\ cpc' = IF r.c.panicked THEN "panic"
                    ELSE IF r.ret = CssNone THEN "tok_done" ELSE "tok_next"
          /\ emitted' = IF r.c.panicked \/ r.ret = CssNone THEN emitted
                        ELSE Append(emitted, r.ret)
    /\ UNCHANGED <<given, t, tpc, parser, token, pc, cframe, url, upc, returned>>

NextCssTok == CssTokNew \/ CssTokNext

SpecCssTok == InitCssTok /\ [][NextCssTok]_vars

(***************************************************************************)
(* Url (url.rs).  A String is the tuple of its characters; an index is     *)
(* 1-based, 0 standing for None.                                           *)
(***************************************************************************)
Scheme == <<"h","t","t","p",":","/","/">>
DefaultPort == <<"8","0">>

\* str::starts_with, str::contains, str::trim_start_matches (which removes the
\* prefix as many times as it is repeated), str::find, str::splitn(2, ch)
StartsWith(s, pat) == Len(s) >= Len(pat) /\ SubSeq(s, 1, Len(pat)) = pat

contains(s, pat) ==
    \E i \in 1..(Len(s) - Len(pat) + 1) : SubSeq(s, i, i + Len(pat) - 1) = pat

RECURSIVE trim_start_matches(_, _)
trim_start_matches(s, pat) ==
    IF StartsWith(s, pat) THEN trim_start_matches(SubSeq(s, Len(pat) + 1, Len(s)), pat)
    ELSE s

find(s, ch) ==
    IF \E i \in 1..Len(s) : s[i] = ch
    THEN CHOOSE i \in 1..Len(s) : s[i] = ch /\ \A k \in 1..(i - 1) : s[k] # ch
    ELSE 0

splitn(s, ch) ==
    The({IF i = 0 THEN <<s>> ELSE <<SubSeq(s, 1, i - 1), SubSeq(s, i + 1, Len(s))>>
         : i \in {find(s, ch)}})

\* Result<Url, String>
Ok(u) == [ok |-> TRUE, value |-> u, error |-> ""]
Err(message) == [ok |-> FALSE, value |-> UrlOff, error |-> message]

\* Url::is_http
is_http(u) == contains(u.url, Scheme)

\* `self.url.trim_start_matches("http://").splitn(2, '/').collect()`
url_parts(u) == splitn(trim_start_matches(u.url, Scheme), "/")

\* Url::extract_host
extract_host(u) ==
    The({IF find(parts[1], ":") # 0 THEN SubSeq(parts[1], 1, find(parts[1], ":") - 1)
         ELSE parts[1]
         : parts \in {url_parts(u)}})

\* Url::extract_port
extract_port(u) ==
    The({IF find(parts[1], ":") # 0
         THEN SubSeq(parts[1], find(parts[1], ":") + 1, Len(parts[1]))
         ELSE DefaultPort
         : parts \in {url_parts(u)}})

\* Url::extract_path
extract_path(u) ==
    The({IF Len(parts) < 2 THEN <<>> ELSE splitn(parts[2], "?")[1]
         : parts \in {url_parts(u)}})

\* Url::extract_searchpart
extract_searchpart(u) ==
    The({IF Len(parts) < 2 THEN <<>>
         ELSE IF Len(splitn(parts[2], "?")) < 2 THEN <<>>
         ELSE splitn(parts[2], "?")[2]
         : parts \in {url_parts(u)}})

\* Url::parse: self after the call and the value returned
parse(u) ==
    IF ~is_http(u) THEN [self |-> u, ret |-> Err("Only HTTP scheme is supported.")]
    ELSE The({[self |-> s, ret |-> Ok(s)]
              : s \in {[u EXCEPT !.host = extract_host(u),
                                 !.port = extract_port(u),
                                 !.path = extract_path(u),
                                 !.searchpart = extract_searchpart(u)]}})

\* urls of the tests of url.rs, without the scheme
UrlHost == <<"e","x","a","m","p","l","e",".","c","o","m">>
UrlHostPort == <<"e","x","a","p","m","l","e",".","c","o","m",":","8","8","8","8">>
UrlHostPortPath == <<"e","x","a","m","p","l","e",".","c","o","m",":","8","8","8","8","/","i","n","d","e","x",".","h","t","m","l">>
UrlHostPath == <<"e","x","a","m","p","l","e",".","c","o","m","/","i","n","d","e","x",".","h","t","m","l">>
UrlHostPortPathSearchpart == <<"e","x","a","m","p","l","e",".","c","o","m",":","8","8","8","8","/","i","n","d","e","x",".","h","t","m","l","?","a","=","1","2","3","&","b","=","4","5","6">>
\* a url whose scheme is written twice
UrlSchemeTwice == <<"h","t","t","p",":","/","/","e","x","a","m","p","l","e",".","c","o","m">>

UrlAlphabet == {"a", ":", "/", "?"}

\* what is written before the scheme, if anything
UrlHeadSet == {<<>>, <<"x">>, <<"h","t","t","p","s",":","/","/">>, <<"f","t","p",":","/","/","a","/","?","u","=">>}

UrlTailSet ==
    SeqsUpTo(UrlAlphabet, MaxUrlLen)
        \cup {UrlHost, UrlHostPort, UrlHostPortPath, UrlHostPath,
              UrlHostPortPathSearchpart, UrlSchemeTwice}

\* the url `head` + [`http://`] + `tail`
UrlCase(head, scheme, tail) == [kind |-> "url", head |-> head, scheme |-> scheme,
                                tail |-> tail]

RenderUrl(g) == g.head \o (IF g.scheme THEN Scheme ELSE <<>>) \o g.tail

UrlCases == {UrlCase(h, s, tl) : h \in UrlHeadSet, s \in BOOLEAN, tl \in UrlTailSet}

InitUrl ==
    /\ given = NoCase
    /\ t = NewHtmlTokenizer(<<>>)
    /\ tpc = "off"
    /\ emitted = <<>>
    /\ parser = ParserOff /\ token = NoneTok /\ pc = "off"
    /\ css = CssOff /\ cpc = "off" /\ cframe = <<>>
    /\ url = UrlOff /\ upc = "new" /\ returned = <<>>

\* `Url::new(url)` for some text
UrlNew ==
    /\ upc = "new"
    /\ \E g \in UrlCases :
          /\ given' = g
          /\ url' = NewUrl(RenderUrl(g))
    /\ upc' = "parse"
    /\ UNCHANGED <<t, tpc, emitted, parser, token, pc, css, cpc, cframe, returned>>

\* `.parse()` on the new Url
UrlParse ==
    /\ upc = "parse"
    /\ \E r \in {parse(url)} :
          /\ url' = r.self
          /\ returned' = Append(returned, r.ret)
    /\ upc' = "returned"
    /\ UNCHANGED <<given, t, tpc, emitted, parser, token, pc, css, cpc, cframe>>

\* `.parse()` on the Url that the last call returned
UrlParseAgain ==
    /\ upc = "returned"
    /\ Len(returned) < MaxParses
    /\ returned[Len(returned)].ok
    /\ \E r \in {parse(returned[Len(returned)].value)} :
          /\ url' = r.self
          /\ returned' = Append(returned, r.ret)
    /\ upc' = "returned"
    /\ UNCHANGED <<given, t, tpc, emitted, parser, token, pc, css, cpc, cframe>>

NextUrl == UrlNew \/ UrlParse \/ UrlParseAgain

SpecUrl == InitUrl /\ [][NextUrl]_vars

(***************************************************************************)
(* Properties of the tree builder                                          *)
(***************************************************************************)
RECURSIVE ChainLen(_, _)
ChainLen(window, n) == IF n = 0 THEN 0 ELSE 1 + ChainLen(window, window[n].next_sibling)

\* C1: for every markup string construct_tree eventually ends (returns the Window),
\* also when the first token that is not a character is a tag met in mode Initial.
C1_ConstructTreeReturns == <>(pc \in {"done", "panic"})

\* C2: parsing <html><head></head><body></body></html> returns a Window with
\* Document -> html -> head, body the next sibling of head, and no other node.
TestBodyShape ==
    /\ Len(parser.window) = 4
    /\ parser.window[1].kind = "Document"
    /\ parser.window[1].first_child # 0
    /\ LET html == parser.window[1].first_child
       IN  /\ element_kind(parser.window[html]) = TagHtml
           /\ parser.window[html].first_child # 0
           /\ LET head == parser.window[html].first_child
              IN  /\ element_kind(parser.window[head]) = TagHead
                  /\ parser.window[head].next_sibling # 0
                  /\ element_kind(parser.window[parser.window[head].next_sibling]) = TagBody

C2_TestBodyTree ==
    (given = RawCase(InHtmlHeadBody)) ~> (pc = "done" /\ TestBodyShape)

OnlyChars == \A i \in 1..Len(emitted) : emitted[i].kind \in {"Char", "None"}

C4_CharsOnlyDocument ==
    (pc = "done" /\ OnlyChars) =>
        /\ parser.window = NewWindow
        /\ parser.window[1].first_child = 0
        /\ parser.stack_of_open_elements = <<>>

C4_Witness ==
    /\ pc = "done"
    /\ Len(emitted) = 3
    /\ emitted[1].kind = "Char" /\ emitted[2].kind = "Char" /\ emitted[3] = NoneTok
    /\ emitted[1].c = "p"
    /\ parser.window = NewWindow

(***************************************************************************)
(* Properties of the HTML tokenizer                                        *)
(***************************************************************************)
NameToLower(name) == [i \in 1..Len(name) |-> ToAsciiLowercase(name[i])]

ExpectedToken(it) ==
    CASE it.kind = "start" -> StartTagTok(NameToLower(it.name), FALSE, <<>>)
      [] it.kind = "end" -> EndTagTok(NameToLower(it.name))
      [] it.kind = "char" -> CharTok(it.c)

\* C5: for markup made of complete tags and text characters, the successive calls of
\* next return one token per tag and per character, in source order, then None for
\* ever; nothing is returned out of place and no call faults.
C5_TagsAndText ==
    given.kind = "items" =>
        /\ tpc # "panic"
        /\ \A i \in 1..Len(emitted) :
              emitted[i] = IF i <= Len(given.items) THEN ExpectedToken(given.items[i])
                           ELSE NoneTok
        /\ (tpc = "idle" /\ t.pos >= Len(t.input)) => Len(emitted) >= Len(given.items)

C5_Witness ==
    /\ given = ItemsCase(ItemsPHi)
    /\ Len(emitted) = 6
    /\ SubSeq(emitted, 1, 4) = <<StartTagTok(<<"p">>, FALSE, <<>>), CharTok("h"),
                                 CharTok("i"), EndTagTok(<<"p">>)>>
    /\ emitted[5] = NoneTok /\ emitted[6] = NoneTok

\* the slash of `/>` directly after an unquoted attribute value belongs to the value
SlashInUnquotedValue(g) ==
    /\ g.slash /\ ~g.space
    /\ Len(g.attrs) > 0
    /\ g.attrs[Len(g.attrs)].quote = ""

ExpectedAttributes(g) ==
    [i \in 1..Len(g.attrs) |-> [name |-> g.attrs[i].name, value |-> g.attrs[i].value]]

C8_TruncatedYieldsEof ==
    (given.kind = "raw" /\ given.text \in TruncatedInputs) =>
        /\ tpc # "panic"
        /\ (tpc = "idle" /\ t.pos >= Len(t.input)) =>
               \E i \in 1..Len(emitted) : emitted[i] = EofTok

\* C9: between the StartTag of script and the EndTag of script every token returned
\* is a character: no StartTag and no other EndTag.
C9_ScriptIsRawText ==
    \A i \in 1..Len(emitted) : \A j \in (i + 1)..Len(emitted) :
        ( /\ emitted[i].kind = "StartTag" /\ emitted[i].tag = TagScript
          /\ \A k \in (i + 1)..(j - 1) : emitted[k] # EndTagTok(TagScript) )
        => \/ emitted[j].kind \in {"Char", "None", "Eof"}
           \/ emitted[j] = EndTagTok(TagScript)

(***************************************************************************)
(* Properties of the CSS parser                                            *)
(***************************************************************************)
ExpectedDeclarations(g) ==
    [i \in 1..Len(g.decls) |-> Declaration(g.decls[i].property, g.decls[i].value)]

\* C10: for a rule whose block holds declarations `identifier : token`, each followed
\* by ';' or, the last one, directly by the closing '}', parse_stylesheet does not
\* fault and returns exactly one rule, holding one Declaration(property, value) per
\* written declaration, in order.
C10_DeclarationPerPair ==
    given.kind = "block" =>
        /\ cpc # "panic"
        /\ cpc = "done" =>
              /\ Len(cframe.sheet) = 1
              /\ cframe.sheet[1].declarations = ExpectedDeclarations(given)

C10_Witness ==
    /\ given = BlockCase(<<"#","i","d">>, <<DeclColorBlue>>, FALSE, TRUE)
    /\ css.input = CssIdNoSemi
    /\ cpc = "done"
    /\ cframe.sheet = <<[selector |-> IdSelector(<<"i","d">>),
                         declarations |-> <<Declaration(<<"c","o","l","o","r">>,
                                                        Ident(<<"b","l","u","e">>))>>]>>

IsPrefix(s, u) == Len(s) <= Len(u) /\ s = SubSeq(u, 1, Len(s))

ExpectedRule(r) ==
    [selector |-> r.selector,
     declarations |-> [i \in 1..Len(r.decls) |-> Declaration(r.decls[i].property,
                                                             r.decls[i].value)]]

ExpectedRules(g) == [i \in 1..Len(g.rules) |-> ExpectedRule(g.rules[i])]

\* C11: for a style sheet of well-formed rules parse_stylesheet does not fault; at
\* every moment the rules collected so far are the first written rules, in order,
\* and the declarations collected for the rule in hand are the first written ones of
\* that rule; the StyleSheet returned holds one rule per written rule, in order.
C11_RulesInSourceOrder ==
    (given.kind = "sheet" /\ cpc # "parse_stylesheet") =>
        /\ cpc # "panic"
        /\ IsPrefix(cframe.rules, ExpectedRules(given))
        /\ cpc = "consume_list_of_declarations" =>
              /\ Len(cframe.rules) < Len(given.rules)
              /\ IsPrefix(cframe.declarations,
                          ExpectedRules(given)[Len(cframe.rules) + 1].declarations)
        /\ cpc = "done" => cframe.sheet = ExpectedRules(given)

C11_Witness ==
    /\ given = SheetCase(<<RuleContent, RuleH1>>, TRUE, TRUE)
    /\ css.input = CssMulti
    /\ cpc = "done"
    /\ Len(cframe.sheet) = 2
    /\ cframe.sheet[2].declarations =
          <<Declaration(<<"f","o","n","t","-","s","i","z","e">>, Number(40, 0)),
            Declaration(<<"c","o","l","o","r">>, Ident(<<"y","e","l","l","o","w">>))>>

\* the character the next call of next starts its token on (1-based; past the end
\* of the input when only ' ' and '\n' are left)
TokenStart == ScanWhile(css.input, css.pos + 1, SkippedChars)

\* the end of the number that starts at index from: the first index after it
NumberEnd(from) == ScanWhile(css.input, from, NumericChars)

RECURSIVE Pow10(_)
Pow10(k) == IF k = 0 THEN 1 ELSE 10 * Pow10(k - 1)

\* the decimal integer a string of digits denotes
DecimalOf(digits) ==
    LET n == Len(digits)
        RECURSIVE Sum(_)
        Sum(i) == IF i > n THEN 0 ELSE ToDigit(digits[i]) * Pow10(n - i) + Sum(i + 1)
    IN Sum(1)

\* the value of the text `int` or `int.frac`, as the Number token holds it
WrittenNumber(text) ==
    LET dots == {i \in 1..Len(text) : text[i] = "."}
    IN IF dots = {} THEN Number(DecimalOf(text), 0)
       ELSE LET d == CHOOSE i \in dots : TRUE
                int == SubSeq(text, 1, d - 1)
                frac == SubSeq(text, d + 1, Len(text))
            IN IF frac = <<>> THEN Number(DecimalOf(int), 0)
               ELSE Number(DecimalOf(int) * Pow10(Len(frac)) + DecimalOf(frac), Len(frac))

AtNumber ==
    /\ cpc = "tok_next"
    /\ TokenStart <= Len(css.input)
    /\ IsDigit(css.input[TokenStart])
    /\ Cardinality({i \in TokenStart..(NumberEnd(TokenStart) - 1) : css.input[i] = "."}) <= 1

\* C12: a call of next that starts on a digit returns one Number token whose value is
\* the decimal value of the digits (digits after a '.' counting digit * 10^-k), and
\* leaves the cursor on the first character after the number.
C12_NumberToken ==
    [][AtNumber =>
         /\ cpc' = "tok_next"
         /\ emitted' = Append(emitted,
                WrittenNumber(SubSeq(css.input, TokenStart, NumberEnd(TokenStart) - 1)))
         /\ css'.pos = NumberEnd(TokenStart) - 1]_vars

C12_Witness ==
    /\ css.input = <<"0", ".", "4">>
    /\ emitted = <<Number(4, 1)>>
    /\ css.pos = 3
    /\ cpc = "tok_next"

\* the token next() is about to read is a '#' whose identifier ends inside the input
AtHash ==
    /\ css.peeked = <<>>
    /\ TokenStart <= Len(css.input)
    /\ css.input[TokenStart] = "#"
    /\ ScanWhile(css.input, TokenStart + 1, IdentChars) <= Len(css.input)

HashText == SubSeq(css.input, TokenStart, ScanWhile(css.input, TokenStart + 1, IdentChars) - 1)

\* C13: text `#x` becomes the token HashToken("#x"); consume_selector turns that token
\* into IdSelector("x"); a rule written `#x { ... }` is returned with IdSelector("x").
C13_IdSelector ==
    [][/\ (cpc = "consume_list_of_rules" /\ AtHash) =>
              (cpc' = "consume_qualified_rule" /\ css'.peeked = <<HashToken(HashText)>>)
       /\ (/\ cpc = "consume_qualified_rule"
           /\ css.peeked # <<>>
           /\ css.peeked[1].kind = "HashToken") =>
              /\ cpc' = "consume_qualified_rule"
              /\ css.peeked[1].s[1] = "#"
              /\ cframe'.rule.selector = IdSelector(Tail(css.peeked[1].s))
       /\ (given.kind = "block" /\ given.selector[1] = "#" /\ cpc' = "done") =>
              /\ Len(cframe'.sheet) = 1
              /\ cframe'.sheet[1].selector = IdSelector(Tail(given.selector))]_vars

C13_Witness ==
    /\ given = BlockCase(<<"#","i","d">>, <<DeclColorBlue>>, FALSE, TRUE)
    /\ cpc = "consume_qualified_rule"
    /\ css.peeked = <<>>
    /\ cframe.rule.selector = IdSelector(<<"i","d">>)

\* C14: while the call of consume_qualified_rule that began on an AtKeyword token runs
\* and when it returns, the list of rules stays as it was; and a sheet written as an
\* at-rule `@kw ... { declarations }` followed by rules is parsed, without a fault,
\* to exactly the rules that follow the at-rule.
C14_AtRulesDropped ==
    [][/\ (/\ cpc \in {"consume_qualified_rule", "consume_selector",
                        "consume_selector_next", "consume_list_of_declarations"}
           /\ cframe.at_rule) => cframe'.rules = cframe.rules
       /\ (given.kind = "at" /\ cpc # "new") =>
              /\ cpc' # "panic"
              /\ cpc' = "done" => cframe'.sheet = ExpectedRules(given)]_vars

C14_Witness ==
    /\ given = AtCase(<<"@","m","e","d","i","a"," ","p">>, <<DeclColorRed>>,
                      <<RuleH1>>, TRUE, TRUE)
    /\ cpc = "done"
    /\ cframe.sheet = <<ExpectedRule(RuleH1)>>

\* C15: when the tokens run out after the selector of a trailing rule and before any
\* '{', parse_stylesheet comes to return, and returns exactly the complete rules
\* written before the cut-off rule, in order.
C15_TruncatedRuleDropped ==
    (given.kind = "truncated") ~> (cpc = "done" /\ cframe.sheet = ExpectedRules(given))

\* the tokenizer alone faults somewhere on the text c starts with
RECURSIVE TokenizerFaults(_)
TokenizerFaults(c) ==
    The({
        IF r.c.panicked THEN TRUE
        ELSE IF r.ret = CssNone THEN FALSE
        ELSE TokenizerFaults(r.c)
        : r \in {CssTokenizerNext(c)}})

\* C16: parse_stylesheet never faults on a sequence of tokens: whenever it panics,
\* the fault is the tokenizer's, on text it cannot turn into tokens.
C16_ParserNeverFaults ==
    cpc = "panic" => TokenizerFaults(NewCssParser(css.input))

\* C20: a pass of the loop in mode Initial consumes a character token and stays in
\* Initial; on any other token it moves to BeforeHtml and leaves the token and the
\* tokenizer as they are.
C20_InitialHandsOver ==
    [][(pc = "match" /\ parser.mode = "Initial") =>
          IF token.kind = "Char"
          THEN parser'.mode = "Initial" /\ t' = HtmlTokenizerNext(t).t
          ELSE parser'.mode = "BeforeHtml" /\ token' = token /\ t' = t]_vars

\* C18: Url::parse returns Err("Only HTTP scheme is supported.") for every url that
\* does not begin with `http://`, and Ok only for urls that begin with `http://`.
C18_OnlyHttpAccepted ==
    \A i \in 1..Len(returned) :
        IF StartsWith(RenderUrl(given), Scheme)
        THEN returned[i].ok
        ELSE returned[i] = Err("Only HTTP scheme is supported.")

\* the components the text of a url `http://` host [`:` port] [`/` path [`?` searchpart]]
\* spells out: what follows the scheme, cut at the first ':' or '/', the first '/' and
\* the first '?' after it
WrittenUrl(text) ==
    LET rest == SubSeq(text, Len(Scheme) + 1, Len(text))
        hostEnd == ScanUntil(rest, 1, {":", "/"})
        slash == ScanUntil(rest, 1, {"/"})
        mark == ScanUntil(rest, slash + 1, {"?"})
    IN  [url |-> text,
         host |-> SubSeq(rest, 1, hostEnd - 1),
         port |-> IF hostEnd <= Len(rest) /\ rest[hostEnd] = ":"
                  THEN SubSeq(rest, hostEnd + 1, slash - 1)
                  ELSE <<"8","0">>,
         path |-> IF slash > Len(rest) THEN <<>> ELSE SubSeq(rest, slash + 1, mark - 1),
         searchpart |-> IF slash > Len(rest) \/ mark > Len(rest) THEN <<>>
                        ELSE SubSeq(rest, mark + 1, Len(rest))]

\* C19: for a url that is `http://` followed by host, optional port, optional path and
\* searchpart, parse returns Ok with the components the text spells out, and parsing
\* the returned Url again returns the same.
C19_ComponentsAsWritten ==
    (given.kind = "url" /\ given.head = <<>> /\ given.scheme) =>
        \A i \in 1..Len(returned) : returned[i] = Ok(WrittenUrl(RenderUrl(given)))

(***************************************************************************)
(* Properties of the insertion modes after Initial                         *)
(***************************************************************************)
\* Document -> html -> head, body the next sibling of head, and an element of the
\* given kind the first child of body
UnderSyntheticBody(kind) ==
    /\ Len(parser.window) >= 5
    /\ parser.window[1].first_child # 0
    /\ LET html == parser.window[1].first_child
       IN  /\ element_kind(parser.window[html]) = TagHtml
           /\ parser.window[html].parent = 1
           /\ parser.window[html].first_child # 0
           /\ LET head == parser.window[html].first_child
              IN  /\ element_kind(parser.window[head]) = TagHead
                  /\ parser.window[head].next_sibling # 0
                  /\ LET body == parser.window[head].next_sibling
                     IN  /\ element_kind(parser.window[body]) = TagBody
                         /\ parser.window[body].first_child # 0
                         /\ element_kind(parser.window[parser.window[body].first_child])
                                = kind

\* C21: when the first tag token of the input is StartTag p, construct_tree comes to
\* a tree Document -> html -> head, body with the p element under body: html, head
\* and body are inserted without consuming the token, which InBody then inserts.
C21_SyntheticHtmlHeadBody ==
    (pc = "match" /\ token.kind = "StartTag" /\ token.tag = TagP
        /\ parser.window = NewWindow)
      ~> UnderSyntheticBody(TagP)

\* the script element is a child of the current node, the head element, and holds the
\* characters between its tags as one text node; the builder is back in InHead
ScriptClosedInHead ==
    /\ parser.mode = "InHead"
    /\ parser.original_insertion_mode = "InHead"
    /\ parser.stack_of_open_elements # <<>>
    /\ element_kind(parser.window[CurrentNode(parser)]) = TagHead
    /\ \E n \in 1..Len(parser.window) :
          /\ element_kind(parser.window[n]) = TagScript
          /\ parser.window[n].parent = CurrentNode(parser)
          /\ parser.window[n].first_child # 0
          /\ parser.window[parser.window[n].first_child].kind = "Text"
          /\ parser.window[parser.window[n].first_child].text
                = <<"j","s"," ","c","o","d","e",";">>

\* C22: for <script>js code;</script> the builder inserts the script element in
\* InHead, gathers the characters as text under it in Text, and at </script> pops the
\* stack down to and including the element and is in InHead again, the head element
\* being the current node.
C22_ScriptTextAndBack == (given = RawCase(InScriptJs)) ~> ScriptClosedInHead

\* the tree and the stack as <body> left them: Document, html, head, body and no
\* other node, html and body open
BodyOpenAlone ==
    /\ Len(parser.window) = 4
    /\ Len(parser.stack_of_open_elements) = 2
    /\ element_kind(parser.window[parser.stack_of_open_elements[1]]) = TagHtml
    /\ element_kind(parser.window[parser.stack_of_open_elements[2]]) = TagBody

\* C23: for <body></p> the end tag p, which has no p element on the stack, is
\* consumed without a fault and without a change of the stack or the tree, and
\* construct_tree goes on to the end of the input and returns.
C23_StrayEndTagIgnored ==
    (given = RawCase(InStrayEndP)) ~> (pc = "done" /\ BodyOpenAlone)

\* C24: for <body></html>... and for <body><p></html>, where p is still open above
\* body, the end tag html pops body and then html, so that the stack of open elements
\* is empty, and the builder is in AfterBody.
C24_EndHtmlPopsBodyAndHtml ==
    (pc = "start" /\ given \in {RawCase(InAfterHtml), RawCase(InUnclosedP)})
      ~> (parser.mode = "AfterBody" /\ Len(parser.window) > 1
             /\ parser.stack_of_open_elements = <<>>)

(***************************************************************************)
(* Properties of the node primitives and of the search                     *)
(***************************************************************************)
\* the nodes reached from n over next_sibling, in order
RECURSIVE Chain(_, _)
Chain(window, n) ==
    IF n = 0 THEN <<>> ELSE <<n>> \o Chain(window, window[n].next_sibling)

\* the children of node n, in the order of its child chain
Children(window, n) == Chain(window, window[n].first_child)

\* C25: a call of insert_element makes the new element the last child of the current
\* node (the top of the stack, or the Document when the stack is empty), keeps the
\* earlier children linked in their order, sets the new node's parent to the current
\* node, and pushes the new node, which is then the current node.
C25_InsertElementAppends ==
    [][given'.kind = "call" /\ given'.op = "insert_element" =>
          LET current == CurrentNode(parser)
              node == Len(parser.window) + 1
          IN  /\ Len(parser'.window) = node
              /\ element_kind(parser'.window[node]) = given'.tag
              /\ Children(parser'.window, current)
                    = Append(Children(parser.window, current), node)
              /\ parser'.window[node].parent = current
              /\ parser'.stack_of_open_elements
                    = Append(parser.stack_of_open_elements, node)
              /\ CurrentNode(parser') = node]_vars

\* insert_element has just added a third child
C25_Witness ==
    /\ given.kind = "call" /\ given.op = "insert_element"
    /\ CurrentNode(parser) = Len(parser.window)
    /\ LET node == Len(parser.window)
           siblings == Children(parser.window, parser.window[node].parent)
       IN  /\ Len(siblings) = 3
           /\ siblings[3] = node

\* C26: a call of insert_char that creates a text node appends it after the last child
\* of the current node, as insert_element does: the earlier children stay linked, in
\* their order, and the new node follows them.
C26_InsertCharAppends ==
    [][(given'.kind = "call" /\ given'.op = "insert_char"
          /\ Len(parser'.window) = Len(parser.window) + 1) =>
          LET current == CurrentNode(parser)
              node == Len(parser.window) + 1
          IN  /\ parser'.window[node].kind = "Text"
              /\ Children(parser'.window, current)
                    = Append(Children(parser.window, current), node)]_vars

\* what a node is, its links left aside
Content(node) == <<node.kind, node.tag, node.attributes, node.text>>

\* C27: a call insert_char(c) does nothing when the stack is empty; appends c to the
\* buffer of the current node when that is a text node, a space included; drops c when
\* the current node is not a text node and c is a space; and otherwise creates one text
\* node holding c, which becomes the current node.  Hence no text node begins with
\* a space.
C27_InsertCharCases ==
    [][given'.kind = "call" /\ given'.op = "insert_char" =>
          LET c == given'.c
              current == CurrentNode(parser)
              node == Len(parser.window) + 1
          IN  /\ IF parser.stack_of_open_elements = <<>> THEN parser' = parser
                 ELSE IF parser.window[current].kind = "Text"
                 THEN parser' = [parser EXCEPT !.window[current].text = Append(@, c)]
                 ELSE IF IsWhitespace(c) THEN parser' = parser
                 ELSE /\ Len(parser'.window) = node
                      /\ Content(parser'.window[node]) = <<"Text", <<>>, <<>>, <<c>>>>
                      /\ \A n \in 1..Len(parser.window) :
                            Content(parser'.window[n]) = Content(parser.window[n])
                      /\ parser'.stack_of_open_elements
                            = Append(parser.stack_of_open_elements, node)
              /\ \A n \in 1..Len(parser'.window) :
                    parser'.window[n].kind = "Text" =>
                        ~IsWhitespace(parser'.window[n].text[1])]_vars

\* a space has just been appended to the text node that x began
C27_Witness ==
    /\ given.kind = "call" /\ given.op = "insert_char" /\ given.c = " "
    /\ parser.stack_of_open_elements # <<>>
    /\ parser.window[CurrentNode(parser)].kind = "Text"
    /\ parser.window[CurrentNode(parser)].text = <<"x", " ">>

\* node n, then its descendants, then its following siblings with theirs: the nodes
\* in the order in which the document lists them from n on
RECURSIVE Preorder(_, _)
Preorder(window, n) ==
    IF n = 0 THEN <<>>
    ELSE <<n>> \o Preorder(window, window[n].first_child)
               \o Preorder(window, window[n].next_sibling)

Matches(window, nodes, kind) ==
    {i \in 1..Len(nodes) : KindEq(window[nodes[i]], kind)}

\* the first node of the list that is an element of the kind
FirstMatch(window, nodes, kind) ==
    nodes[CHOOSE i \in Matches(window, nodes, kind) :
              \A j \in Matches(window, nodes, kind) : i <= j]

OtherTokenInSelectorPosition ==
    /\ cpc = "consume_qualified_rule"
    /\ ~TokenizerFaults(css)
    /\ LET tok == CssPeek(css).ret
       IN  /\ tok.kind \notin {"None", "OpenCurly", "HashToken", "Ident", "AtKeyword"}
           /\ ~(tok.kind = "Delim" /\ tok.s = <<".">>)

\* C29: the call of consume_selector on such a token does not fault, yields
\* UnknownSelector and consumes that one token: what the parser has left to read
\* afterwards is what follows the token.
C29_OtherTokenIsOneUnknown ==
    [][OtherTokenInSelectorPosition =>
          /\ cpc' # "panic"
          /\ cframe'.rule.selector = UnknownSelector
          /\ CssPeek(css').c = CssPeek(CssNext(css).c).c]_vars

ClosingQuotes == {j \in (TokenStart + 1)..Len(css.input) : css.input[j] = css.input[TokenStart]}

\* the first of them
MatchingQuote == CHOOSE j \in ClosingQuotes : \A k \in ClosingQuotes : j <= k

AtString ==
    /\ cpc = "tok_next"
    /\ TokenStart <= Len(css.input)
    /\ css.input[TokenStart] \in QuoteChars

\* C31: a call of next that starts on a quote which has a matching quote after it
\* returns one StringToken whose value is the characters between the two, a quote of
\* the other kind included, and leaves the cursor just past the closing quote.
C31_StringUpToMatchingQuote ==
    [][AtString /\ ClosingQuotes # {} =>
         /\ cpc' = "tok_next"
         /\ emitted' = Append(emitted,
                StringToken(SubSeq(css.input, TokenStart + 1, MatchingQuote - 1)))
         /\ css'.pos = MatchingQuote]_vars

\* the token that starts at TokenStart goes on to the last character of the input
EndsInsideToken ==
    /\ cpc = "tok_next"
    /\ TokenStart <= Len(css.input)
    /\ LET ch == css.input[TokenStart]
           rest(k) == ScanWhile(css.input, TokenStart + k, IdentChars) = Len(css.input) + 1
       IN  \/ (IsAsciiAlphabetic(ch) \/ ch \in {"_", "-", "#"}) /\ rest(1)
           \/ ch = "@" /\ TokenStart + 3 <= Len(css.input) /\ rest(1)
           \/ ch \in QuoteChars /\ ScanUntil(css.input, TokenStart + 1, QuoteChars)
                                      = Len(css.input) + 1

\* what has been accumulated when the input ends
AccumulatedToken ==
    LET ch == css.input[TokenStart]
        from(k) == SubSeq(css.input, TokenStart + k, Len(css.input))
    IN  CASE ch = "#" -> HashToken(from(0))
          [] ch = "@" -> AtKeyword(from(1))
          [] ch \in QuoteChars -> StringToken(from(1))
          [] OTHER -> Ident(from(0))

\* C32: when the text ends inside an identifier, a hash token, an at-keyword or a
\* string that is not closed, the call of next returns the token accumulated so far
\* without a fault, and the cursor is at the end so that the call after it is None.
C32_EndInsideTokenYieldsToken ==
    [][EndsInsideToken =>
         /\ cpc' = "tok_next"
         /\ emitted' = Append(emitted, AccumulatedToken)
         /\ css'.pos >= Len(css.input)]_vars

(***************************************************************************)
(* Properties of the CSS parser: termination, and the block a declaration  *)
(* comes from                                                              *)
(***************************************************************************)
\* C33: parse_stylesheet terminates on every sequence of tokens: a call that has
\* started comes to its return (or to a fault), whatever loop it is in.
C33_ParseStylesheetTerminates ==
    (cpc = "parse_stylesheet") ~> (cpc \in {"done", "panic"})

(***************************************************************************)
(* Properties of the HTML tokenizer: the token under construction          *)
(***************************************************************************)
\* the states in which a tag is being built
TagBuildingStates ==
    {"TagName", "BeforeAttributeName", "AttributeName", "AfterAttributeName",
     "BeforeAttributeValue", "AttributeValueDoubleQuoted", "AttributeValueSingleQuoted",
     "AttributeValueUnquoted", "AfterAttributeValueQuoted", "SelfClosingStartTag",
     "ScriptDataEndTagName"}

\* next has just returned a tag token
TagJustEmitted ==
    /\ tpc = "idle"
    /\ emitted # <<>>
    /\ emitted[Len(emitted)].kind \in {"StartTag", "EndTag"}

\* C34: in a tag-building state latest_token is Some (a StartTag or an EndTag), so
\* that the assertions of take_latest_token and append_tag_name, which are called in
\* these states only, hold; and latest_token is None when a tag token has just been
\* returned.
C34_LatestTokenUnderConstruction ==
    /\ t.state \in TagBuildingStates => t.latest_token.kind \in {"StartTag", "EndTag"}
    /\ TagJustEmitted => t.latest_token = NoneTok

\* the start tag with three attributes and its end tag have been built and returned
C34_Witness ==
    /\ given = RawCase(InAttributes)
    /\ Len(emitted) = 2
    /\ emitted[1].kind = "StartTag" /\ Len(emitted[1].attributes) = 3
    /\ emitted[2] = EndTagTok(<<"p">>)
    /\ TagJustEmitted
    /\ t.latest_token = NoneTok

(***************************************************************************)
(* Properties of the tree the node primitives build                        *)
(***************************************************************************)
\* the owning links of the nodes in S: <<owner, field, owned>>
OwningLinks(window, S) ==
    {<<m, "first_child", window[m].first_child>> : m \in {k \in S : window[k].first_child # 0}}
    \cup {<<m, "next_sibling", window[m].next_sibling>> :
              m \in {k \in S : window[k].next_sibling # 0}}

\* the nodes reached from those of S over the owning links
RECURSIVE Reached(_, _)
Reached(window, S) ==
    The({IF more \subseteq S THEN S ELSE Reached(window, S \cup more)
         : more \in {{e[3] : e \in OwningLinks(window, S)}}})

\* the nodes linked into the tree: those reached from the Document
Linked(window) == Reached(window, {1})

\* the nodes reached from those of S over next_sibling
RECURSIVE Siblings(_, _)
Siblings(window, S) ==
    The({IF more \subseteq S THEN S ELSE Siblings(window, S \cup more)
         : more \in {{window[k].next_sibling : k \in S} \ {0}}})

\* the nodes of the child chain of node m
ChildChain(window, m) ==
    IF window[m].first_child = 0 THEN {} ELSE Siblings(window, {window[m].first_child})

\* C35: the owning links from the Document form a tree: one Document, which has no
\* parent and which no link leads to; every other linked node has exactly one owning
\* link leading to it (hence no cycle and no second path), and its parent is the node
\* in whose child chain it sits.
C35_OwningLinksFormTree ==
    LET window == parser.window
        linked == Linked(window)
    IN  /\ {n \in 1..Len(window) : window[n].kind = "Document"} = {1}
        /\ window[1].parent = 0
        /\ \A n \in linked :
              Cardinality({e \in OwningLinks(window, linked) : e[3] = n})
                 = IF n = 1 THEN 0 ELSE 1
        /\ \A n \in linked \ {1} :
              /\ window[n].parent \in linked
              /\ n \in ChildChain(window, window[n].parent)

\* an element with an element child and a text child, itself the second child of its
\* parent
C35_Witness ==
    LET window == parser.window
    IN  /\ pc = "nodes"
        /\ \E n \in Linked(window) :
              /\ window[n].kind = "Element"
              /\ window[n].previous_sibling # 0
              /\ \E e, x \in ChildChain(window, n) :
                    window[e].kind = "Element" /\ window[x].kind = "Text"

\* C36: when a call of insert_element or insert_char links a new node behind existing
\* children, the new node's previous_sibling is the node whose next_sibling it has
\* become, the former last child; a node linked as first child has no previous sibling.
C36_PreviousSiblingIsInverse ==
    [][(given'.kind = "call" /\ given'.op \in {"insert_element", "insert_char"}
          /\ Len(parser'.window) = Len(parser.window) + 1) =>
          LET current == CurrentNode(parser)
              node == Len(parser.window) + 1
              children == Children(parser.window, current)
          IN  IF children = <<>>
              THEN parser'.window[node].previous_sibling = 0
              ELSE /\ parser'.window[node].previous_sibling = children[Len(children)]
                   /\ parser'.window[parser'.window[node].previous_sibling].next_sibling
                         = node]_vars

\* C37: text nodes are leaves: the node a call of insert_element or insert_char links
\* gets the Document or an element as its parent, also when the current node is a
\* text node that insert_char has left on top of the stack.
C37_TextNodesAreLeaves ==
    [][(given'.kind = "call" /\ given'.op \in {"insert_element", "insert_char"}
          /\ Len(parser'.window) = Len(parser.window) + 1) =>
          LET node == Len(parser.window) + 1
          IN  parser'.window[parser'.window[node].parent].kind
                 \in {"Document", "Element"}]_vars

\* the stack is an ancestor chain of linked nodes, from a child of the Document up
AncestorChain(p) ==
    LET stack == p.stack_of_open_elements
    IN  \A i \in 1..Len(stack) :
           /\ p.window[stack[i]].parent = IF i = 1 THEN 1 ELSE stack[i - 1]
           /\ stack[i] \in Linked(p.window)

\* C38: the stack of open elements is an ancestor chain of nodes linked into the
\* tree: the parent of the bottom entry is the Document, the parent of every other
\* entry is the entry below it, every entry is reached from the Document over the
\* owning links; and a call of pop_current_node or pop_until leaves a prefix of the
\* stack.
C38_StackIsAncestorChain ==
    [][/\ AncestorChain(parser')
       /\ (given'.kind = "call" /\ given'.op \in {"pop_current_node", "pop_until"}) =>
              IsPrefix(parser'.stack_of_open_elements, parser.stack_of_open_elements)]_vars

\* pop_until has popped two entries off a stack of three, the nodes staying linked
C38_Witness ==
    /\ given.kind = "call" /\ given.op = "pop_until"
    /\ pc = "nodes"
    /\ Len(parser.stack_of_open_elements) = 1
    /\ Len(parser.window) = 4
    /\ parser.window[4].parent = 3 /\ parser.window[3].parent = 2
    /\ parser.stack_of_open_elements = <<2>>
    /\ AncestorChain(parser)

\* C39: the attribute and self-closing operations are applied to a StartTag only: an
\* iteration of the loop of next that has an EndTag under construction and a
\* character to read does not fault.
C39_EndTagNeverFaults ==
    [][(tpc = "loop" /\ t.latest_token.kind = "EndTag" /\ ~ReadInput(t).t.panicked)
          => tpc' # "panic"]_vars

\* the tokens the parser has still to read, up to the end of the text
RECURSIVE Rest(_)
Rest(c) ==
    The({
        IF r.c.panicked \/ r.ret = CssNone THEN <<>> ELSE <<r.ret>> \o Rest(r.c)
        : r \in {CssNext(c)}})

\* 0, or the place of the first close-curly among tokens
FirstCloseCurly(tokens) ==
    IF \A i \in 1..Len(tokens) : tokens[i] # CloseCurly THEN 0
    ELSE CHOOSE i \in 1..Len(tokens) :
            tokens[i] = CloseCurly /\ \A j \in 1..(i - 1) : tokens[j] # CloseCurly

\* consume_list_of_declarations is in its loop, the close-curly of the block is ahead
\* and tokens of a later rule follow it
InBlockBeforeLaterRule ==
    /\ cpc = "consume_list_of_declarations"
    /\ ~TokenizerFaults(css)
    /\ FirstCloseCurly(Rest(css)) # 0
    /\ FirstCloseCurly(Rest(css)) < Len(Rest(css))

\* C40: the declarations of a rule are built from the tokens up to the first
\* close-curly after the rule's open-curly: an iteration of the loop of
\* consume_list_of_declarations consumes no token behind that close-curly, and when
\* the close-curly is consumed the loop ends, whatever a declaration attempt made of
\* the tokens before it.
C40_DeclarationsStayInBlock ==
    [][InBlockBeforeLaterRule =>
          LET consumed == Len(Rest(css)) - Len(Rest(css'))
          IN  /\ consumed <= FirstCloseCurly(Rest(css))
              /\ consumed = FirstCloseCurly(Rest(css))
                    => cpc' # "consume_list_of_declarations"]_vars

====
